---- MODULE Spec2Model ----
(***************************************************************************)
(* Model of the "Renaissance" tutor: the JSON event log (_load_events,     *)
(* _save_events, _log_event), the assessment scoring                       *)
(* (_compute_level_and_summary), the assessment wizard, the practice       *)
(* digest and the chat section of app/components/ai_tutor_de.py, the       *)
(* metrics of app/components/analytics_de.py, and the panel toggles of     *)
(* app/pages/data_engineer_roadmap.py.                                     *)
(***************************************************************************)
EXTENDS Integers, Sequences, FiniteSets, TLC

VARIABLES
  fs,                    \* the data directory and data/tutor_events.json
  clock,                 \* datetime.utcnow(): the next reading of the clock
  tutor_stage,           \* st.session_state.tutor_stage
  tutor_question_index,  \* st.session_state.tutor_question_index
  tutor_answers,         \* st.session_state.tutor_answers
  tutor_current_choice,  \* st.session_state.tutor_current_choice
  show_ai_tutor,         \* st.session_state.show_ai_tutor
  show_analytics,        \* st.session_state.show_analytics
  backs,                 \* Spec: "Back" clicks that discarded an answer
  sess,                  \* SpecStore: each session's call in progress
  writes,                \* SpecStore: completed writes of the log file
  appends,               \* SpecStore: append_event calls started
  last_load,             \* SpecStore: the latest load_events call and result
  cs_answers,            \* SpecSummary: the argument of compute_summary
  cs_result,             \* SpecSummary: its return value
  latest_summary,        \* SpecLatest: the latest get_latest_summary call
  chunk_events,          \* SpecSessions: the argument of _chunk_sessions
  chunk_result,          \* SpecSessions: its return value
  today,                 \* datetime.utcnow().date(), as a day number
  streak_dates,          \* SpecStreak: the argument of _calculate_streak
  streak_result,         \* SpecStreak: its return value
  tutor_chat_messages,   \* session state: the chat transcript
  tutor_llm_client,      \* session state: the OpenAI client, or None
  chat_exc,              \* the exception the latest chat run ended with
  digest_result,         \* SpecDigest: _build_recent_practice_digest's value
  tutor_show_practice_summary,  \* session state: a digest was requested
  tutor_last_digest_signature,  \* session state: (digest, len) last injected
  chat_run,              \* the latest run of _render_chat_section
  metrics                \* SpecMetrics: the latest _summarize_user_metrics call

vars == << fs, clock, tutor_stage, tutor_question_index, tutor_answers,
           tutor_current_choice, show_ai_tutor, show_analytics, backs,
           sess, writes, appends, last_load, cs_answers, cs_result,
           latest_summary, chunk_events, chunk_result, today,
           streak_dates, streak_result, tutor_chat_messages,
           tutor_llm_client, chat_exc, digest_result,
           tutor_show_practice_summary, tutor_last_digest_signature,
           chat_run, metrics >>

wizardVars == << tutor_stage, tutor_question_index, tutor_answers,
                 tutor_current_choice >>
panelVars == << show_ai_tutor, show_analytics >>
sessionVars == << wizardVars, panelVars, backs >>
storeVars == << sess, writes, appends, last_load >>
summaryVars == << cs_answers, cs_result >>
latestVars == << latest_summary >>
chunkVars == << chunk_events, chunk_result >>
streakVars == << today, streak_dates, streak_result >>
digestVars == << tutor_show_practice_summary, tutor_last_digest_signature,
                chat_run >>
chatVars == << tutor_chat_messages, tutor_llm_client, chat_exc,
              digest_result, digestVars >>
metricsVars == << metrics >>
callVars == << summaryVars, latestVars, chunkVars, streakVars, chatVars,
              metricsVars >>

\* ------------------------------------------------------------------ bounds
\* longest answer list handed to _compute_level_and_summary in SpecSummary
MaxAnswers == 5
\* largest radio option the modelled user selects (options are 0..3)
MaxChoice == 1
\* the wizard stops writing once the log holds this many events
MaxLog == 7
\* "Back" clicks that discard an answer in one behaviour of Spec
MaxBacks == 1
\* append_event calls started in one behaviour of SpecStore
MaxAppends == 2
\* longest log handed to get_latest_summary in SpecLatest
MaxLatestLog == 3
\* longest event list handed to _chunk_sessions in SpecSessions
MaxSessionEvents == 3
\* longest date list handed to _calculate_streak in SpecStreak
MaxStreakDates == 4
\* the days the dates and `today` of SpecStreak are drawn from are 1..MaxDay
MaxDay == 4
\* longest transcript handed to _build_recent_practice_digest in SpecDigest
MaxTranscript == 3
\* chat turns in SpecChat
MaxTurns == 2
\* a run of the chat section of SpecTranscript starts while the transcript
\* is shorter than this
MaxChatLen == 7
\* longest log read by _summarize_user_metrics in SpecMetrics
MaxMetricsLog == 2
\* longest log read by _summarize_user_metrics in SpecSnapshot
MaxSnapshotLog == 3

\* -------------------------------------------------------------- constants
None == "<None>"
\* tutor_current_choice = None (no option selected yet)
NoChoice == -1
USER_ID == "Mukesh"
OTHER_USER == "Guest"

Min(a, b) == IF a <= b THEN a ELSE b

\* ------------------------------------------------------- the question bank
Questions ==
  << [id |-> "q1_python_basics", pillar |-> "Foundations",
      topic |-> "Core Skills - Python",
      noptions |-> 4, correct_index |-> 1, difficulty |-> 1],
     [id |-> "q2_sql_joins", pillar |-> "Storage & Databases",
      topic |-> "Relational Databases - SQL",
      noptions |-> 4, correct_index |-> 1, difficulty |-> 1],
     [id |-> "q3_etl_elt", pillar |-> "Data Ingestion & Pipelines",
      topic |-> "Pipeline Fundamentals - ETL vs ELT",
      noptions |-> 4, correct_index |-> 1, difficulty |-> 2],
     [id |-> "q4_batch_streaming", pillar |-> "Data Ingestion & Pipelines",
      topic |-> "Ingestion Types - Batch vs Streaming",
      noptions |-> 4, correct_index |-> 1, difficulty |-> 2],
     [id |-> "q5_cloud_services", pillar |-> "Big Data & Infrastructure",
      topic |-> "Cloud Platforms - AWS / Azure / GCP",
      noptions |-> 4, correct_index |-> 0, difficulty |-> 2] >>

NumQuestions == Len(Questions)

Pillars == { Questions[i].pillar : i \in 1..NumQuestions }

\* ------------------------------------------- _compute_level_and_summary
\* a.get("pillar", "Unknown")
GetPillar(a) == IF "pillar" \in DOMAIN a THEN a.pillar ELSE "Unknown"

\* sum(1 for a in answers if a.get("correct"))
RECURSIVE CountCorrect(_)
CountCorrect(answers) ==
  IF answers = <<>> THEN 0
  ELSE (IF Head(answers).correct THEN 1 ELSE 0) + CountCorrect(Tail(answers))

\* the if/elif chain on score = correct / total, with score <= 0.25 written
\* as 4 * correct <= total, score <= 0.5 as 2 * correct <= total and
\* score <= 0.75 as 4 * correct <= 3 * total
LevelOfStrict(correct, total) ==
  IF 4 * correct < total THEN 1
  ELSE IF 2 * correct < total THEN 2
  ELSE IF 4 * correct < 3 * total THEN 3
  ELSE 4

LevelOf(correct, total) ==
  IF 4 * correct <= total THEN 1
  ELSE IF 2 * correct <= total THEN 2
  ELSE IF 4 * correct <= 3 * total THEN 3
  ELSE 4

\* position of a pillar in the insertion-ordered dict, 0 when absent
RECURSIVE StatIndex(_, _)
StatIndex(stats, pillar) ==
  IF stats = <<>> THEN 0
  ELSE IF stats[Len(stats)].pillar = pillar
            /\ StatIndex(SubSeq(stats, 1, Len(stats) - 1), pillar) = 0
       THEN Len(stats)
       ELSE StatIndex(SubSeq(stats, 1, Len(stats) - 1), pillar)

\* the "Per-pillar stats" loop: a dict in insertion order, kept as a
\* sequence of [pillar, total, correct]
RECURSIVE PillarStats(_)
PillarStats(answers) ==
  IF answers = <<>> THEN <<>>
  ELSE LET n     == Len(answers)
           a     == answers[n]
           prev  == PillarStats(SubSeq(answers, 1, n - 1))
           p     == GetPillar(a)
           i     == StatIndex(prev, p)
           inc   == IF a.correct THEN 1 ELSE 0
       IN IF i = 0
          THEN Append(prev, [pillar |-> p, total |-> 1, correct |-> inc])
          ELSE [prev EXCEPT ![i] = [pillar  |-> p,
                                    total   |-> prev[i].total + 1,
                                    correct |-> prev[i].correct + inc]]

\* acc(a) < acc(b) for acc = correct / total
AccLess(a, b) == a.correct * b.total < b.correct * a.total
AccLessEq(a, b) == a.correct * b.total <= b.correct * a.total

\* the "weakest pillar" loop: weakest_accuracy starts at 1.1 (11/10) and a
\* pillar replaces the current weakest only when strictly less accurate
WeakestLast(stats) ==
  LET RECURSIVE Walk(_, _)
      Walk(i, w) ==
        IF i > Len(stats) THEN w
        ELSE IF AccLessEq(stats[i], w)
             THEN Walk(i + 1, [pillar |-> stats[i].pillar,
                               correct |-> stats[i].correct,
                               total |-> stats[i].total])
             ELSE Walk(i + 1, w)
  IN Walk(1, [pillar |-> None, correct |-> 11, total |-> 10]).pillar

WeakestPillar(stats) ==
  LET RECURSIVE Walk(_, _)
      Walk(i, w) ==
        IF i > Len(stats) THEN w
        ELSE IF AccLess(stats[i], w)
             THEN Walk(i + 1, [pillar |-> stats[i].pillar,
                               correct |-> stats[i].correct,
                               total |-> stats[i].total])
             ELSE Walk(i + 1, w)
  IN Walk(1, [pillar |-> None, correct |-> 11, total |-> 10]).pillar

\* sorted(pillar_stats.items(), key=accuracy): stable, ascending
RECURSIVE SortedPillars(_)
SortedPillars(stats) ==
  IF stats = <<>> THEN <<>>
  ELSE LET n    == Len(stats)
           x    == stats[n]
           prev == SortedPillars(SubSeq(stats, 1, n - 1))
           \* x goes after every element whose accuracy is <= its own
           k    == Cardinality({ j \in 1..Len(prev) : AccLessEq(prev[j], x) })
       IN SubSeq(prev, 1, k) \o <<x>> \o SubSeq(prev, k + 1, Len(prev))

\* the loop that copies every pillar but the weakest into `secondary`
RECURSIVE SecondaryOf(_, _)
SecondaryOf(sorted, weakest) ==
  IF sorted = <<>> THEN <<>>
  ELSE IF Head(sorted).pillar # weakest
       THEN <<Head(sorted).pillar>> \o SecondaryOf(Tail(sorted), weakest)
       ELSE SecondaryOf(Tail(sorted), weakest)

EmptySummaryLevel0 ==
  [score |-> [num |-> 0, den |-> 1], level |-> 0, pillar_stats |-> <<>>,
   primary_recommendation |-> None, secondary_recommendations |-> <<>>]

\* the early return for "not answers"
EmptySummary ==
  [score |-> [num |-> 0, den |-> 1], level |-> 1, pillar_stats |-> <<>>,
   primary_recommendation |-> None, secondary_recommendations |-> <<>>]

\* score is the quotient correct / total, kept as the exact fraction
\* [num, den]; the empty list returns the integer 0, kept as 0/1
ComputeLevelAndSummary(answers) ==
  IF answers = <<>> THEN EmptySummary
  ELSE LET total   == Len(answers)
           correct == CountCorrect(answers)
           stats   == PillarStats(answers)
           weakest == WeakestPillar(stats)
           truthy  == weakest # None /\ weakest # ""
       IN [score |-> [num |-> correct, den |-> total],
           level |-> LevelOf(correct, total),
           pillar_stats |-> stats,
           primary_recommendation |-> IF truthy THEN weakest ELSE None,
           secondary_recommendations |->
             IF truthy THEN SecondaryOf(SortedPillars(stats), weakest)
             ELSE <<>>]

\* ============================================================ timestamps
\* A timestamp field is the string datetime.utcnow().isoformat() + "Z":
\* "YYYY-MM-DDTHH:MM:SS.ffffffZ", or "YYYY-MM-DDTHH:MM:SSZ" when the
\* microsecond is 0 (isoformat leaves the fraction out).  kind "iso" is
\* such a string, given by its day, second of the day and microsecond;
\* kind "bad" is a string fromisoformat rejects; kind "empty" is "";
\* kind "missing" is an event dict without the key "timestamp".
IsoStamp(day, sec, micro) ==
  [kind |-> "iso", day |-> day, sec |-> sec, micro |-> micro]
BadStamp == [kind |-> "bad", day |-> 0, sec |-> 0, micro |-> 0]
EmptyStamp == [kind |-> "empty", day |-> 0, sec |-> 0, micro |-> 0]
MissingStamp == [kind |-> "missing", day |-> 0, sec |-> 0, micro |-> 0]

\* e.get("timestamp") is truthy: the key is there and the string is not ""
HasTimestamp(e) == e.timestamp.kind \notin {"empty", "missing"}

SecondsPerDay == 86400
MicrosPerSecond == 1000000
\* idle_limit = timedelta(minutes=30), in seconds
IdleLimit == 1800

\* _parse_timestamp: None (FALSE here) for "" and for a string that does
\* not parse
Parses(ts) == ts.kind = "iso"

\* the order of two timestamp strings, as sorted() compares the keys: the
\* date and the time to the second compare digit by digit; after the
\* seconds one string goes on with "Z" and the other with ".ffffffZ", and
\* "." sorts before "Z"; a string that is no timestamp sorts after these
SuffixRank(ts) == IF ts.micro = 0 THEN MicrosPerSecond ELSE ts.micro
StrLess(a, b) ==
  IF a.kind # "iso" \/ b.kind # "iso" THEN a.kind = "iso" /\ b.kind # "iso"
  ELSE \/ a.day < b.day
       \/ a.day = b.day /\ a.sec < b.sec
       \/ a.day = b.day /\ a.sec = b.sec /\ SuffixRank(a) < SuffixRank(b)

\* the order of the parsed datetimes
TimeLess(a, b) ==
  \/ a.day < b.day
  \/ a.day = b.day /\ a.sec < b.sec
  \/ a.day = b.day /\ a.sec = b.sec /\ a.micro < b.micro

\* ts - last_time <= idle_limit
WithinIdleLimit(ts, last_time) ==
  LET ds == (ts.day - last_time.day) * SecondsPerDay + ts.sec - last_time.sec
  IN \/ ds < IdleLimit
     \/ ds = IdleLimit /\ ts.micro <= last_time.micro

\* datetime.utcnow().isoformat() + "Z" at reading c of the clock: the
\* readings of one behaviour are a second apart, on day 1
Now(c) == IsoStamp(1, c, 500000)

\* ------------------------------------------------------------ event store
\* fs.dir    : "present" | "absent" (os.makedirs can create it) |
\*             "uncreatable" (os.makedirs raises OSError)
\* fs.kind   : "missing" | "malformed" (json.load raises) |
\*             "nonarray" (valid JSON, not an array) | "array"
\* fs.events : the array's content when kind = "array"
\* fs.access : "rw" | "ro" (open(path, "w") raises PermissionError) |
\*             "none" (open(path, "r") and open(path, "w") both raise)
NoException == "none"

\* _get_data_dir: os.makedirs(data_dir, exist_ok=True), outside any try
GetDataDirRaises(f) == f.dir = "uncreatable"
GetDataDir(f) == IF f.dir = "absent" THEN [f EXCEPT !.dir = "present"] ELSE f

\* a value _load_events returns: a list (is_list, items) or the non-array
\* value json.load parsed (dict, string, number, bool or None)
ListValue(items) == [is_list |-> TRUE, items |-> items]
NonArrayValue == [is_list |-> FALSE, items |-> <<>>]

\* the body of _load_events once the path is known: os.path.exists, then
\* open(path, "r") + json.load(f) inside try / except Exception: return []
ReadFile(f) ==
  IF f.kind = "missing" THEN ListValue(<<>>)         \* os.path.exists is False
  ELSE IF f.access = "none" THEN ListValue(<<>>)     \* open raises, swallowed
  ELSE IF f.kind = "malformed" THEN ListValue(<<>>)  \* json.load raises, swallowed
  ELSE IF f.kind = "nonarray" THEN NonArrayValue     \* returned as parsed
  ELSE ListValue(f.events)

\* ai_tutor_de._load_events: the path comes from _get_data_dir
LoadEventsTutor(f) ==
  IF GetDataDirRaises(f) THEN [exc |-> "OSError", value |-> ListValue(<<>>)]
  ELSE [exc |-> NoException, value |-> ReadFile(f)]

\* analytics_de._load_events: the path is only joined, nothing is created
LoadEventsAnalytics(f) == [exc |-> NoException, value |-> ReadFile(f)]

SaveEventsNoWrite(f, events) ==
  IF GetDataDirRaises(f) THEN [exc |-> "OSError", fs |-> f]
  ELSE IF f.kind # "missing" /\ f.access # "rw"
       THEN [exc |-> "PermissionError", fs |-> GetDataDir(f)]
       ELSE [exc |-> NoException, fs |-> GetDataDir(f)]

SaveEventsMerge(f, events) ==
  IF GetDataDirRaises(f) THEN [exc |-> "OSError", fs |-> f]
  ELSE IF f.kind # "missing" /\ f.access # "rw"
       THEN [exc |-> "PermissionError", fs |-> GetDataDir(f)]
       ELSE [exc |-> NoException,
             fs |-> [GetDataDir(f) EXCEPT
                       !.kind = "array",
                       !.events = (IF f.kind = "array" THEN f.events ELSE <<>>)
                                  \o <<events[Len(events)]>>]]

\* _save_events: open(path, "w") and json.dump, with no try around them;
\* the whole file is replaced by `events`
SaveEvents(f, events) ==
  IF GetDataDirRaises(f) THEN [exc |-> "OSError", fs |-> f]
  ELSE IF f.kind # "missing" /\ f.access # "rw"
       THEN [exc |-> "PermissionError", fs |-> GetDataDir(f)]
       ELSE [exc |-> NoException,
             fs |-> [GetDataDir(f) EXCEPT !.kind = "array", !.events = events]]

\* the dict _log_event appends; ts is datetime.utcnow().isoformat() + "Z",
\* a reading of a clock that moves on from one call to the next
Event(type, user_id, ts, payload) ==
  [type |-> type, user_id |-> user_id, timestamp |-> ts, data |-> payload]

LogEventLoadDropOld(f, ev) ==
  LET r == LoadEventsTutor(f)
  IN IF r.exc # NoException THEN [exc |-> r.exc, events |-> <<>>, before |-> <<>>]
     ELSE IF ~r.value.is_list
          THEN [exc |-> "AttributeError", events |-> <<>>, before |-> <<>>]
          ELSE [exc |-> NoException, events |-> <<ev>>,
                before |-> r.value.items]

\* _log_event up to the call of _save_events: events = _load_events();
\* events.append({...}).  A value that is not a list has no append.
LogEventLoad(f, ev) ==
  LET r == LoadEventsTutor(f)
  IN IF r.exc # NoException THEN [exc |-> r.exc, events |-> <<>>, before |-> <<>>]
     ELSE IF ~r.value.is_list
          THEN [exc |-> "AttributeError", events |-> <<>>, before |-> <<>>]
          ELSE [exc |-> NoException, events |-> Append(r.value.items, ev),
                before |-> r.value.items]

\* _log_event as one synchronous call: the outcome and the file after it
LogEvent(f, ev) ==
  LET l == LogEventLoad(f, ev)
  IN IF l.exc # NoException THEN [exc |-> l.exc, fs |-> GetDataDir(f)]
     ELSE SaveEvents(GetDataDir(f), l.events)

\* ------------------------------------------------------ get_latest_summary
EmptyDict == [empty |-> TRUE]

\* the first matching event instead of the last
LatestIndexFirst(events, user_id) ==
  LET S == { i \in 1..Len(events) :
               /\ events[i].user_id = user_id
               /\ events[i].type = "tutor_assessment_completed" }
  IN IF S = {} THEN 0 ELSE CHOOSE i \in S : \A j \in S : i <= j

\* the loop "for ev in events" from event k on: `latest` is overwritten by
\* every event of the user whose type is tutor_assessment_completed; the
\* index 0 stands for latest = {}
RECURSIVE ScanLatest(_, _, _, _)
ScanLatest(events, user_id, k, latest) ==
  IF k > Len(events) THEN latest
  ELSE IF events[k].user_id # user_id
       THEN ScanLatest(events, user_id, k + 1, latest)
       ELSE IF events[k].type = "tutor_assessment_completed"
            THEN ScanLatest(events, user_id, k + 1, k)
            ELSE ScanLatest(events, user_id, k + 1, latest)

LatestIndex(events, user_id) == ScanLatest(events, user_id, 1, 0)

GetLatestSummary(events, user_id) ==
  LET i == LatestIndex(events, user_id)
  IN IF i = 0 THEN EmptyDict
     ELSE [empty |-> FALSE,
           level |-> events[i].data.level,
           last_assessed_at |-> events[i].timestamp,
           primary_recommendation |-> events[i].data.primary_recommendation,
           secondary_recommendations |->
             events[i].data.secondary_recommendations]

\* render_ai_tutor_panel: has_profile = bool(get_latest_summary(user_id))
HasProfile(f) ==
  ~GetLatestSummary(LoadEventsTutor(f).value.items, USER_ID).empty

\* -------------------------------------------------------------- the wizard
AnswerRecordFixedIndex(idx, choice) ==
  LET q == Questions[idx + 1]
  IN [question_id |-> q.id, pillar |-> q.pillar, topic |-> q.topic,
      selected_index |-> choice, correct_index |-> q.correct_index,
      correct |-> (choice = 1)]

\* the answer_record dict of _render_question_stage
AnswerRecord(idx, choice) ==
  LET q == Questions[idx + 1]
  IN [question_id |-> q.id, pillar |-> q.pillar, topic |-> q.topic,
      selected_index |-> choice, correct_index |-> q.correct_index,
      correct |-> (choice = q.correct_index)]

\* the payload with the difficulty of the first question
QuestionPayloadFirstDifficulty(idx, choice) ==
  LET a == AnswerRecord(idx, choice)
  IN [question_id |-> a.question_id, pillar |-> a.pillar, topic |-> a.topic,
      selected_index |-> a.selected_index, correct_index |-> a.correct_index,
      correct |-> a.correct, difficulty |-> Questions[1].difficulty]

\* {**answer_record, "difficulty": question["difficulty"]}
QuestionPayload(idx, choice) ==
  LET a == AnswerRecord(idx, choice)
  IN [question_id |-> a.question_id, pillar |-> a.pillar, topic |-> a.topic,
      selected_index |-> a.selected_index, correct_index |-> a.correct_index,
      correct |-> a.correct, difficulty |-> Questions[idx + 1].difficulty]

\* the payload of the tutor_assessment_completed event
CompletedPayload(summary) ==
  [level |-> summary.level, score |-> summary.score,
   pillar_stats |-> summary.pillar_stats,
   primary_recommendation |-> summary.primary_recommendation,
   secondary_recommendations |-> summary.secondary_recommendations]

\* the value st.radio returns: the option last selected for this question,
\* or option 0 of a radio that was just created (index = 0 when
\* tutor_current_choice is None)
RadioValue == IF tutor_current_choice = NoChoice THEN 0 ELSE tutor_current_choice

\* line 588, run on every render of the question stage
RenderedChoice(visible) ==
  IF visible /\ tutor_stage = "question" THEN RadioValue
  ELSE tutor_current_choice

LogOf(f) == IF f.kind = "array" THEN f.events ELSE <<>>

\* ------------------------------------------------- idle parts of the state
NoResult == [computed |-> FALSE]
NoLoad == [called |-> FALSE]
IdleSession ==
  [pc |-> "idle", ev |-> Event("", "", 0, ""), events |-> <<>>,
   before |-> <<>>, after |-> ListValue(<<>>), exc |-> NoException,
   read_at |-> 0, wrote_as |-> 0, after_at |-> 0]
Sessions == {1, 2}

FreshInstall == [dir |-> "absent", kind |-> "missing", events |-> <<>>,
                 access |-> "rw"]

WizardInit ==
  /\ tutor_stage = "intro"
  /\ tutor_question_index = 0
  /\ tutor_answers = <<>>
  /\ tutor_current_choice = NoChoice
PanelInit ==
  /\ show_ai_tutor = FALSE
  /\ show_analytics = FALSE
  /\ backs = 0
StoreInit ==
  /\ sess = [s \in Sessions |-> IdleSession]
  /\ writes = 0
  /\ appends = 0
  /\ last_load = NoLoad
SummaryInit ==
  /\ cs_answers = <<>>
  /\ cs_result = NoResult
LatestInit == latest_summary = NoResult
ChunkInit ==
  /\ chunk_events = <<>>
  /\ chunk_result = NoResult
StreakInit ==
  /\ today = 1
  /\ streak_dates = <<>>
  /\ streak_result = NoResult
\* tutor_last_digest_signature = None
NoSignature == [is_none |-> TRUE, digest |-> <<>>, len |-> 0]
\* no run of the chat section yet
NoRun == [kind |-> "none", sent |-> FALSE, request |-> <<>>]
DigestInit ==
  /\ tutor_show_practice_summary = FALSE
  /\ tutor_last_digest_signature = NoSignature
  /\ chat_run = NoRun
ChatInit ==
  /\ tutor_chat_messages = <<>>
  /\ tutor_llm_client = None
  /\ chat_exc = NoException
  /\ digest_result = NoResult
  /\ DigestInit
MetricsInit == metrics = [computed |-> FALSE, calls |-> 0]
CallsInit ==
  /\ SummaryInit /\ LatestInit /\ ChunkInit /\ StreakInit /\ ChatInit
  /\ MetricsInit

\* ===================================================== SpecSummary
\* compute_summary as a function: Init draws the answer list, Compute
\* applies _compute_level_and_summary to it.
RECURSIVE SeqsUpTo(_, _)
SeqsUpTo(S, n) ==
  IF n = 0 THEN { <<>> }
  ELSE LET shorter == SeqsUpTo(S, n - 1)
       IN shorter \cup { Append(q, x) : q \in { r \in shorter : Len(r) = n - 1 },
                                        x \in S }

AnswerInputs == [pillar : Pillars, correct : BOOLEAN]

SummaryDraw ==
  /\ cs_answers \in SeqsUpTo(AnswerInputs, MaxAnswers)
  /\ cs_result = NoResult
  /\ fs = FreshInstall /\ clock = 0
  /\ WizardInit /\ PanelInit /\ StoreInit /\ LatestInit /\ ChunkInit
  /\ StreakInit /\ ChatInit /\ MetricsInit

Compute ==
  /\ ~cs_result.computed
  /\ cs_result' = [computed |-> TRUE,
                   summary |-> ComputeLevelAndSummary(cs_answers)]
  /\ UNCHANGED << cs_answers, fs, clock, sessionVars, storeVars, latestVars,
                  chunkVars, streakVars, chatVars, metricsVars >>

SummaryNext == Compute

SpecSummary == SummaryDraw /\ [][SummaryNext]_vars

\* accuracy helpers for the statements below, computed from the answers
\* themselves and not from pillar_stats
TotalIn(answers, p) ==
  Cardinality({ i \in 1..Len(answers) : answers[i].pillar = p })
CorrectIn(answers, p) ==
  Cardinality({ i \in 1..Len(answers) :
                  answers[i].pillar = p /\ answers[i].correct })
FirstIn(answers, p) ==
  CHOOSE i \in 1..Len(answers) :
    /\ answers[i].pillar = p
    /\ \A j \in 1..(i - 1) : answers[j].pillar # p
PresentIn(answers) == { answers[i].pillar : i \in 1..Len(answers) }
\* accuracy of p < accuracy of q / accuracy of p = accuracy of q
AccLT(answers, p, q) ==
  CorrectIn(answers, p) * TotalIn(answers, q)
    < CorrectIn(answers, q) * TotalIn(answers, p)
AccEQ(answers, p, q) ==
  CorrectIn(answers, p) * TotalIn(answers, q)
    = CorrectIn(answers, q) * TotalIn(answers, p)
NumCorrect(answers) ==
  Cardinality({ i \in 1..Len(answers) : answers[i].correct })

\* C1: for every non-empty answer list the score is (answers marked
\* correct) / (answers) and the level is 1 for score <= 0.25, 2 for
\* 0.25 < score <= 0.5, 3 for 0.5 < score <= 0.75 and 4 above; a 5-answer
\* list with 0,1,2,3,4,5 correct answers gets level 1,1,2,3,4,4.
C1_ScoreAndLevel ==
  (cs_result.computed /\ cs_answers # <<>>) =>
    LET r == cs_result.summary
        n == Len(cs_answers)
        c == NumCorrect(cs_answers)
    IN /\ r.score = [num |-> c, den |-> n]
       /\ (r.level = 1) = (4 * c <= n)
       /\ (r.level = 2) = (4 * c > n /\ 2 * c <= n)
       /\ (r.level = 3) = (2 * c > n /\ 4 * c <= 3 * n)
       /\ (r.level = 4) = (4 * c > 3 * n)
       /\ n = 5 => r.level = <<1, 1, 2, 3, 4, 4>>[c + 1]

\* a boundary score (2 of 4 correct: exactly 0.5) has been scored
C1_Witness ==
  /\ cs_result.computed
  /\ Len(cs_answers) = 4
  /\ NumCorrect(cs_answers) = 2
  /\ cs_result.summary.level = 2

\* C2: compute_summary of the empty answer list is exactly score 0,
\* level 1, empty pillar_stats, no primary recommendation and an empty
\* list of secondary recommendations.
C2_EmptyAnswers ==
  (cs_result.computed /\ cs_answers = <<>>) =>
    /\ cs_result.summary.score = [num |-> 0, den |-> 1]
    /\ cs_result.summary.level = 1
    /\ cs_result.summary.pillar_stats = <<>>
    /\ cs_result.summary.primary_recommendation = None
    /\ cs_result.summary.secondary_recommendations = <<>>

C2_Witness == cs_result.computed /\ cs_answers = <<>>

\* C3: for every non-empty answer list the primary recommendation is the
\* pillar of lowest accuracy, the first encountered in answer order on a
\* tie; the secondary recommendations are exactly the other pillars of
\* the answer set, in ascending order of accuracy, without the primary.
C3_Recommendations ==
  (cs_result.computed /\ cs_answers # <<>>) =>
    LET a   == cs_answers
        pri == cs_result.summary.primary_recommendation
        sec == cs_result.summary.secondary_recommendations
    IN /\ pri \in PresentIn(a)
       /\ \A p \in PresentIn(a) \ {pri} :
            \/ AccLT(a, pri, p)
            \/ AccEQ(a, pri, p) /\ FirstIn(a, pri) < FirstIn(a, p)
       /\ { sec[i] : i \in 1..Len(sec) } = PresentIn(a) \ {pri}
       /\ Len(sec) = Cardinality(PresentIn(a)) - 1
       /\ \A i, j \in 1..Len(sec) :
            i < j => ~AccLT(a, sec[j], sec[i])

\* three pillars, the first two tied for the lowest accuracy: the first
\* encountered is primary and the other two follow in ascending accuracy
C3_Witness ==
  /\ cs_result.computed
  /\ Cardinality(PresentIn(cs_answers)) >= 3
  /\ LET pri == cs_result.summary.primary_recommendation
         sec == cs_result.summary.secondary_recommendations
     IN /\ AccEQ(cs_answers, pri, sec[1])
        /\ AccLT(cs_answers, sec[1], sec[2])

\* ============================================================== Spec
\* One browser session of the demo user on the roadmap page, on a healthy
\* file system: every action is one run of the page script.
Init ==
  /\ fs = FreshInstall
  /\ clock = 0
  /\ WizardInit /\ PanelInit /\ StoreInit /\ CallsInit

\* the toggle that opens the tutor and leaves the analytics flag alone
ToggleTutorKeepAnalytics ==
  /\ show_ai_tutor' = ~show_ai_tutor
  /\ show_analytics' = show_analytics
  /\ tutor_current_choice' = RenderedChoice(show_ai_tutor')
  /\ fs' = IF show_ai_tutor' THEN GetDataDir(fs) ELSE fs
  /\ UNCHANGED << clock, tutor_stage, tutor_question_index, tutor_answers,
                  backs, storeVars, callVars >>

\* data_engineer_roadmap.py: the "Adaptive AI Tutor" toggle, then the panel
ToggleTutor ==
  /\ show_ai_tutor' = ~show_ai_tutor
  /\ show_analytics' = IF show_ai_tutor' THEN FALSE ELSE show_analytics
  /\ tutor_current_choice' = RenderedChoice(show_ai_tutor')
  /\ fs' = IF show_ai_tutor' THEN GetDataDir(fs) ELSE fs
  /\ UNCHANGED << clock, tutor_stage, tutor_question_index, tutor_answers,
                  backs, storeVars, callVars >>

\* data_engineer_roadmap.py: the "Learning Analytics" toggle
ToggleAnalytics ==
  /\ show_analytics' = ~show_analytics
  /\ show_ai_tutor' = IF show_analytics' THEN FALSE ELSE show_ai_tutor
  /\ tutor_current_choice' = RenderedChoice(show_ai_tutor')
  /\ fs' = IF show_ai_tutor' THEN GetDataDir(fs) ELSE fs
  /\ UNCHANGED << clock, tutor_stage, tutor_question_index, tutor_answers,
                  backs, storeVars, callVars >>

\* analytics_de.py: "Back to roadmap" of the analytics panel
AnalyticsClose ==
  /\ show_analytics /\ ~show_ai_tutor
  /\ show_analytics' = FALSE
  /\ UNCHANGED << fs, clock, wizardVars, show_ai_tutor, backs, storeVars,
                  callVars >>

\* _render_intro_stage: "Start Assessment", shown when there is no profile
StartAssessment ==
  /\ show_ai_tutor /\ tutor_stage = "intro"
  /\ ~HasProfile(fs)
  /\ tutor_stage' = "question"
  /\ tutor_question_index' = 0
  /\ tutor_answers' = <<>>
  /\ tutor_current_choice' = NoChoice
  /\ fs' = GetDataDir(fs)
  /\ UNCHANGED << clock, panelVars, backs, storeVars, callVars >>

RetakeKeepAnswers ==
  /\ show_ai_tutor /\ tutor_stage = "intro"
  /\ HasProfile(fs)
  /\ tutor_stage' = "question"
  /\ tutor_question_index' = 0
  /\ fs' = GetDataDir(fs)
  /\ UNCHANGED << clock, tutor_answers, tutor_current_choice, panelVars,
                  backs, storeVars, callVars >>

\* _render_intro_stage: "Update my level", shown when there is a profile
Retake ==
  /\ show_ai_tutor /\ tutor_stage = "intro"
  /\ HasProfile(fs)
  /\ tutor_stage' = "question"
  /\ tutor_question_index' = 0
  /\ tutor_answers' = <<>>
  /\ tutor_current_choice' = NoChoice
  /\ fs' = GetDataDir(fs)
  /\ UNCHANGED << clock, panelVars, backs, storeVars, callVars >>

\* _render_question_stage: the user picks option c of the radio
SelectChoice ==
  /\ show_ai_tutor /\ tutor_stage = "question"
  /\ \E c \in 0..Min(MaxChoice, Questions[tutor_question_index + 1].noptions - 1) :
       tutor_current_choice' = c
  /\ fs' = GetDataDir(fs)
  /\ UNCHANGED << clock, tutor_stage, tutor_question_index, tutor_answers,
                  panelVars, backs, storeVars, callVars >>

\* "Back" without tutor_answers.pop()
BackKeepAnswer ==
  /\ show_ai_tutor /\ tutor_stage = "question"
  /\ IF tutor_question_index > 0
     THEN /\ backs < MaxBacks
          /\ backs' = backs + 1
          /\ tutor_question_index' = tutor_question_index - 1
          /\ tutor_answers' = tutor_answers
          /\ tutor_current_choice' = NoChoice
     ELSE /\ tutor_current_choice' = RadioValue
          /\ UNCHANGED << tutor_question_index, tutor_answers, backs >>
  /\ fs' = GetDataDir(fs)
  /\ UNCHANGED << clock, tutor_stage, panelVars, storeVars, callVars >>

\* "Back" that leaves the radio's choice in place
BackKeepChoice ==
  /\ show_ai_tutor /\ tutor_stage = "question"
  /\ IF tutor_question_index > 0
     THEN /\ backs < MaxBacks
          /\ backs' = backs + 1
          /\ tutor_question_index' = tutor_question_index - 1
          /\ tutor_answers' =
               IF tutor_answers # <<>>
               THEN SubSeq(tutor_answers, 1, Len(tutor_answers) - 1)
               ELSE tutor_answers
          /\ tutor_current_choice' = RadioValue
     ELSE /\ tutor_current_choice' = RadioValue
          /\ UNCHANGED << tutor_question_index, tutor_answers, backs >>
  /\ fs' = GetDataDir(fs)
  /\ UNCHANGED << clock, tutor_stage, panelVars, storeVars, callVars >>

\* "Back" that also takes the discarded answer's event out of the log
BackPopEvent ==
  /\ show_ai_tutor /\ tutor_stage = "question"
  /\ IF tutor_question_index > 0
     THEN /\ backs < MaxBacks
          /\ backs' = backs + 1
          /\ tutor_question_index' = tutor_question_index - 1
          /\ tutor_answers' =
               IF tutor_answers # <<>>
               THEN SubSeq(tutor_answers, 1, Len(tutor_answers) - 1)
               ELSE tutor_answers
          /\ tutor_current_choice' = NoChoice
          /\ fs' = [GetDataDir(fs) EXCEPT
                      !.events = SubSeq(@, 1, Len(@) - 1)]
     ELSE /\ tutor_current_choice' = RadioValue
          /\ fs' = GetDataDir(fs)
          /\ UNCHANGED << tutor_question_index, tutor_answers, backs >>
  /\ UNCHANGED << clock, tutor_stage, panelVars, storeVars, callVars >>

\* _render_question_stage: "Back"
Back ==
  /\ show_ai_tutor /\ tutor_stage = "question"
  /\ IF tutor_question_index > 0
     THEN /\ backs < MaxBacks
          /\ backs' = backs + 1
          /\ tutor_question_index' = tutor_question_index - 1
          /\ tutor_answers' =
               IF tutor_answers # <<>>
               THEN SubSeq(tutor_answers, 1, Len(tutor_answers) - 1)
               ELSE tutor_answers
          /\ tutor_current_choice' = NoChoice
     ELSE /\ tutor_current_choice' = RadioValue
          /\ UNCHANGED << tutor_question_index, tutor_answers, backs >>
  /\ fs' = GetDataDir(fs)
  /\ UNCHANGED << clock, tutor_stage, panelVars, storeVars, callVars >>

\* _render_question_stage: "Next" below the last question
NextQuestion ==
  /\ show_ai_tutor /\ tutor_stage = "question"
  /\ tutor_question_index < NumQuestions - 1
  /\ Len(LogOf(fs)) + 1 <= MaxLog
  /\ LET idx    == tutor_question_index
         choice == RadioValue
         logged == LogEvent(fs, Event("tutor_question_answered", USER_ID,
                                      Now(clock),
                                      QuestionPayload(idx, choice)))
     IN /\ logged.exc = NoException
        /\ tutor_answers' = Append(tutor_answers, AnswerRecord(idx, choice))
        /\ fs' = logged.fs
        /\ tutor_question_index' = idx + 1
        /\ tutor_current_choice' = NoChoice
  /\ clock' = clock + 1
  /\ UNCHANGED << tutor_stage, panelVars, backs, storeVars, callVars >>

\* _render_question_stage: "Finish" on the last question
Finish ==
  /\ show_ai_tutor /\ tutor_stage = "question"
  /\ tutor_question_index >= NumQuestions - 1
  /\ Len(LogOf(fs)) + 2 <= MaxLog
  /\ LET idx     == tutor_question_index
         choice  == RadioValue
         answers == Append(tutor_answers, AnswerRecord(idx, choice))
         logged  == LogEvent(fs, Event("tutor_question_answered", USER_ID,
                                       Now(clock),
                                       QuestionPayload(idx, choice)))
         summary == ComputeLevelAndSummary(answers)
         done    == LogEvent(logged.fs,
                             Event("tutor_assessment_completed", USER_ID,
                                   Now(clock + 1),
                                   CompletedPayload(summary)))
     IN /\ logged.exc = NoException /\ done.exc = NoException
        /\ tutor_answers' = answers
        /\ fs' = done.fs
        /\ tutor_current_choice' = choice
        /\ tutor_stage' = "summary"
  /\ clock' = clock + 2
  /\ UNCHANGED << tutor_question_index, panelVars, backs, storeVars, callVars >>

\* _render_summary_stage: "Close tutor", shown below the summary
CloseTutor ==
  /\ show_ai_tutor /\ tutor_stage = "summary"
  /\ HasProfile(fs)
  /\ tutor_stage' = "intro"
  /\ show_ai_tutor' = FALSE
  /\ UNCHANGED << fs, clock, tutor_question_index, tutor_answers,
                  tutor_current_choice, show_analytics, backs, storeVars,
                  callVars >>

Next ==
  \/ ToggleTutor
  \/ ToggleAnalytics
  \/ AnalyticsClose
  \/ StartAssessment
  \/ Retake
  \/ SelectChoice
  \/ Back
  \/ NextQuestion
  \/ Finish
  \/ CloseTutor

Spec == Init /\ [][Next]_vars

\* ========================================================== SpecStore
\* The event store by itself: two sessions call append_event and
\* load_events on a log file the environment left in any state.  A call of
\* _log_event is two steps, the read (_load_events + append) and the write
\* (_save_events), so that the calls of two sessions interleave.
PreExisting == Event("tutor_chat_message", OTHER_USER, 0, "d0")

StoreEnvs ==
  { [dir |-> d, kind |-> "missing", events |-> <<>>, access |-> "rw"] :
      d \in {"present", "absent", "uncreatable"} }
  \cup
  { [dir |-> "present", kind |-> k, events |-> <<>>, access |-> a] :
      k \in {"malformed", "nonarray", "array"}, a \in {"rw", "ro", "none"} }
  \cup
  { [dir |-> "present", kind |-> "array", events |-> << PreExisting >>,
     access |-> a] : a \in {"rw", "ro", "none"} }

StoreInputs ==
  [type : {"tutor_question_answered", "tutor_assessment_completed",
           "tutor_chat_message"},
   user_id : {USER_ID, OTHER_USER}, data : {"d1"}]

StoreDraw ==
  /\ fs \in StoreEnvs
  /\ clock = 1
  /\ StoreInit
  /\ WizardInit /\ PanelInit /\ CallsInit

\* _log_event, lines 85-93: events = _load_events(); events.append({...})
AppendRead(s) ==
  /\ sess[s].pc = "idle"
  /\ appends < MaxAppends
  /\ \E in \in StoreInputs :
       LET ev == Event(in.type, in.user_id, clock, in.data)
           l  == LogEventLoad(fs, ev)
       IN sess' = [sess EXCEPT ![s] =
            [IdleSession EXCEPT
               !.pc = IF l.exc = NoException THEN "loaded" ELSE "raised",
               !.exc = l.exc, !.ev = ev, !.events = l.events,
               !.before = l.before, !.read_at = writes]]
  /\ fs' = GetDataDir(fs)
  /\ clock' = clock + 1
  /\ appends' = appends + 1
  /\ UNCHANGED << writes, last_load, sessionVars, callVars >>

\* _log_event, line 94: _save_events(events)
AppendWrite(s) ==
  /\ sess[s].pc = "loaded"
  /\ LET r == SaveEvents(fs, sess[s].events)
     IN /\ fs' = r.fs
        /\ IF r.exc = NoException
           THEN /\ writes' = writes + 1
                /\ sess' = [sess EXCEPT ![s].pc = "appended",
                                         ![s].wrote_as = writes + 1]
           ELSE /\ writes' = writes
                /\ sess' = [sess EXCEPT ![s].pc = "raised", ![s].exc = r.exc]
  /\ UNCHANGED << clock, appends, last_load, sessionVars, callVars >>

\* the caller's next call: load_events right after its append_event
LoadAfterAppend(s) ==
  /\ sess[s].pc = "appended"
  /\ LET r == LoadEventsTutor(fs)
     IN sess' = [sess EXCEPT ![s].pc = "checked", ![s].after = r.value,
                             ![s].exc = r.exc, ![s].after_at = writes]
  /\ UNCHANGED << fs, clock, writes, appends, last_load, sessionVars,
                  callVars >>

\* the call is over (returned or raised); the session is free again
Return(s) ==
  /\ sess[s].pc \in {"checked", "raised"}
  /\ sess' = [sess EXCEPT ![s] = IdleSession]
  /\ UNCHANGED << fs, clock, writes, appends, last_load, sessionVars,
                  callVars >>

\* a call of ai_tutor_de._load_events
LoadTutor ==
  /\ \A s \in Sessions : sess[s].pc = "idle"
  /\ LET r == LoadEventsTutor(fs)
     IN last_load' = [called |-> TRUE, copy |-> "tutor", dir |-> fs.dir,
                      kind |-> fs.kind, access |-> fs.access,
                      exc |-> r.exc, value |-> r.value]
  /\ fs' = GetDataDir(fs)
  /\ UNCHANGED << clock, sess, writes, appends, sessionVars, callVars >>

\* a call of analytics_de._load_events
LoadAnalytics ==
  /\ \A s \in Sessions : sess[s].pc = "idle"
  /\ LET r == LoadEventsAnalytics(fs)
     IN last_load' = [called |-> TRUE, copy |-> "analytics", dir |-> fs.dir,
                      kind |-> fs.kind, access |-> fs.access,
                      exc |-> r.exc, value |-> r.value]
  /\ UNCHANGED << fs, clock, sess, writes, appends, sessionVars,
                  callVars >>

StoreNext ==
  \/ \E s \in Sessions : AppendRead(s)
  \/ \E s \in Sessions : AppendWrite(s)
  \/ \E s \in Sessions : LoadAfterAppend(s)
  \/ \E s \in Sessions : Return(s)
  \/ LoadTutor
  \/ LoadAnalytics

SpecStore == StoreDraw /\ [][StoreNext]_vars

\* session s appended and loaded with no write of another session between
\* its read, its write and its load
Undisturbed(s) ==
  /\ sess[s].pc = "checked"
  /\ sess[s].wrote_as = sess[s].read_at + 1
  /\ sess[s].after_at = sess[s].wrote_as

C6_EmptyListOnMissingOrCorrupt ==
  (last_load.called /\ last_load.kind \in {"missing", "malformed", "nonarray"})
    => /\ last_load.exc = NoException
       /\ last_load.value = ListValue(<<>>)

\* C7: no operation on the event log (load_events, append_event) raises
\* to its caller because of a file I/O error.
C7_NoIOErrorRaised ==
  /\ \A s \in Sessions : sess[s].exc \notin {"OSError", "PermissionError"}
  /\ last_load.called => last_load.exc \notin {"OSError", "PermissionError"}

\* both appends are complete, both sessions read before either wrote, s
\* wrote first, t wrote last and nothing was written since
Raced(s, t) ==
  /\ s # t
  /\ sess[s].pc \in {"appended", "checked"}
  /\ sess[t].pc \in {"appended", "checked"}
  /\ sess[s].read_at < sess[s].wrote_as /\ sess[t].read_at < sess[s].wrote_as
  /\ sess[s].wrote_as < sess[t].wrote_as
  /\ writes = sess[t].wrote_as

InLog(ev, log) == \E i \in 1..Len(log) : log[i] = ev

\* C8: when two sessions run append_event concurrently and both read the
\* log before either writes, then once both appends have completed the
\* log holds only the event of the last writer: what the last writer read
\* plus its own event; the first writer's event is lost.
C8_LastWriterWins ==
  \A s, t \in Sessions :
    Raced(s, t) =>
      /\ LogOf(fs) = Append(sess[t].before, sess[t].ev)
      /\ InLog(sess[t].ev, LogOf(fs))
      /\ ~InLog(sess[s].ev, LogOf(fs))

C8_Witness ==
  \E s, t \in Sessions :
    /\ Raced(s, t)
    /\ sess[s].pc = "checked" /\ sess[s].exc = NoException
    /\ ~InLog(sess[s].ev, LogOf(fs))

IsPrefix(a, b) == Len(a) <= Len(b) /\ SubSeq(b, 1, Len(a)) = a

\* the wizard's position: question[i], or the stage alone
Pos(stage, idx) ==
  IF stage = "question" THEN << "question", idx >> ELSE << stage, 0 >>

\* C4: starting an assessment and answering the 5 questions in order, every
\* one correctly except q2_sql_joins, ends in stage summary with an
\* assessment_completed event of score 0.8 (4/5), level 4 and primary
\* recommendation "Storage & Databases".
C4_AllButSqlJoin ==
  /\ tutor_stage = "summary"
  /\ Len(tutor_answers) = NumQuestions
  /\ \A k \in 1..NumQuestions :
       /\ tutor_answers[k].question_id = Questions[k].id
       /\ (tutor_answers[k].selected_index = Questions[k].correct_index)
            = (Questions[k].id # "q2_sql_joins")

C4_EndToEnd ==
  C4_AllButSqlJoin =>
    LET log == LogOf(fs)
        i   == LatestIndex(log, USER_ID)
    IN /\ i > 0
       /\ log[i].type = "tutor_assessment_completed"
       /\ log[i].data.score = [num |-> 4, den |-> 5]
       /\ log[i].data.level = 4
       /\ log[i].data.primary_recommendation = "Storage & Databases"

C4_Witness == C4_AllButSqlJoin /\ Len(LogOf(fs)) = NumQuestions + 1

StaleWrite ==
  \E s \in Sessions :
    /\ sess[s].pc = "loaded" /\ sess'[s].pc = "appended"
    /\ sess[s].read_at # writes

C10_Listed(stage, idx, answers, stage2, idx2, answers2) ==
  \/ Pos(stage, idx) = Pos(stage2, idx2)
  \/ stage = "intro" /\ stage2 = "question" /\ idx2 = 0 /\ answers2 = <<>>
  \/ /\ stage = "question" /\ stage2 = "question"
     /\ idx < NumQuestions - 1 /\ idx2 = idx + 1
  \/ /\ stage = "question" /\ stage2 = "question"
     /\ idx > 0 /\ idx2 = idx - 1
  \/ stage = "question" /\ idx = NumQuestions - 1 /\ stage2 = "summary"

\* C10 as stated: the stage changes only by intro -> question[0] (answers
\* cleared), question[i] -> question[i+1], question[i] -> question[i-1]
\* and question[4] -> summary; summary stays summary until a restart
\* re-enters question[0] with an empty answer list.
C10_OnlyListedTransitions ==
  [][ \/ C10_Listed(tutor_stage, tutor_question_index, tutor_answers,
                    tutor_stage', tutor_question_index', tutor_answers')
      \/ /\ tutor_stage = "summary" /\ tutor_stage' = "question"
         /\ tutor_question_index' = 0 /\ tutor_answers' = <<>> ]_vars

\* C10 amended: the listed transitions, and summary -> intro ("Close
\* tutor", answer list and question index kept); a restart happens from
\* intro and enters question[0] with an empty answer list.
C10_TransitionsWithClose ==
  [][ \/ C10_Listed(tutor_stage, tutor_question_index, tutor_answers,
                    tutor_stage', tutor_question_index', tutor_answers')
      \/ /\ tutor_stage = "summary" /\ tutor_stage' = "intro"
         /\ tutor_question_index' = tutor_question_index
         /\ tutor_answers' = tutor_answers ]_vars

\* a restart after a completed assessment: back at question[0] with an
\* empty answer list, the completed assessment in the log
C10_Witness ==
  /\ tutor_stage = "question"
  /\ tutor_question_index = 0
  /\ tutor_answers = <<>>
  /\ HasProfile(fs)

\* ======================================================== _chunk_sessions
\* sorted(..., key=lambda e: e["timestamp"]) is stable: an event goes
\* after every event whose key is not greater than its own
InsertByKey(sorted, e) ==
  LET k == Cardinality({ i \in 1..Len(sorted) :
                           ~StrLess(e.timestamp, sorted[i].timestamp) })
  IN SubSeq(sorted, 1, k) \o << e >> \o SubSeq(sorted, k + 1, Len(sorted))

RECURSIVE SortedEvents(_)
SortedEvents(events) ==
  IF events = <<>> THEN <<>>
  ELSE LET n == Len(events)
       IN InsertByKey(SortedEvents(SubSeq(events, 1, n - 1)), events[n])

\* (e for e in events if e.get("timestamp"))
RECURSIVE WithTimestamp(_)
WithTimestamp(events) ==
  IF events = <<>> THEN <<>>
  ELSE LET rest == WithTimestamp(Tail(events))
       IN IF HasTimestamp(Head(events)) THEN << Head(events) >> \o rest
          ELSE rest

\* the loop over sorted_events from event k on; st holds sessions,
\* current_start and last_time (started = FALSE: both are None)
RECURSIVE ChunkLoop(_, _, _)
ChunkLoop(sorted_events, k, st) ==
  IF k > Len(sorted_events) THEN st
  ELSE LET ts == sorted_events[k].timestamp
       IN IF ~Parses(ts) THEN ChunkLoop(sorted_events, k + 1, st)
          ELSE IF ~st.started
          THEN ChunkLoop(sorted_events, k + 1,
                 [st EXCEPT !.started = TRUE, !.current_start = ts,
                            !.last_time = ts])
          ELSE IF WithinIdleLimit(ts, st.last_time)
          THEN ChunkLoop(sorted_events, k + 1, [st EXCEPT !.last_time = ts])
          ELSE ChunkLoop(sorted_events, k + 1,
                 [st EXCEPT
                    !.sessions = Append(@, << st.current_start, st.last_time >>),
                    !.current_start = ts, !.last_time = ts])

ChunkSessions(events) ==
  LET st == ChunkLoop(SortedEvents(WithTimestamp(events)), 1,
                      [sessions |-> <<>>, started |-> FALSE,
                       current_start |-> EmptyStamp, last_time |-> EmptyStamp])
  IN IF st.started
     THEN Append(st.sessions, << st.current_start, st.last_time >>)
     ELSE st.sessions

\* ====================================================== _calculate_streak
\* dt.date() of a parsed timestamp
DateOf(dt) == dt.day

\* {dt.date() for dt in dates}
UniqueDates(dates) == { DateOf(dates[i]) : i \in 1..Len(dates) }

\* while cursor in unique_dates: streak += 1; cursor -= timedelta(days=1)
RECURSIVE WalkBack(_, _)
WalkBack(unique_dates, cursor) ==
  IF cursor \in unique_dates THEN 1 + WalkBack(unique_dates, cursor - 1)
  ELSE 0

MaxOf(S) == CHOOSE x \in S : \A y \in S : y <= x

\* the walk from today alone, without the restart from the last active day
CalculateStreakFromToday(dates, now) ==
  IF dates = <<>> THEN 0 ELSE WalkBack(UniqueDates(dates), now)

CalculateStreak(dates, now) ==
  IF dates = <<>> THEN 0
  ELSE LET unique_dates == UniqueDates(dates)
           streak == WalkBack(unique_dates, now)
       IN IF streak = 0 THEN WalkBack(unique_dates, MaxOf(unique_dates))
          ELSE streak

\* ================================================================== text
\* A text is a sequence of pieces: "K" is a practice keyword in lower case
\* ("practice", "practiced", ...), "U" is one with upper-case letters
\* ("Practiced"), "x" is a word holding no keyword, ".", "!" and "?" end
\* a sentence, " " and "\n" are whitespace, "," ":" and "-" are other
\* punctuation.
IsSpace(c) == c \in {" ", "\n"}
IsTerminal(c) == c \in {".", "!", "?"}

\* str.lower()
Lower(text) == [i \in 1..Len(text) |-> IF text[i] = "U" THEN "K" ELSE text[i]]

\* str.strip()
RECURSIVE Strip(_)
Strip(text) ==
  IF text = <<>> THEN <<>>
  ELSE IF IsSpace(Head(text)) THEN Strip(Tail(text))
  ELSE IF IsSpace(text[Len(text)]) THEN Strip(SubSeq(text, 1, Len(text) - 1))
  ELSE text

\* the first position from i on that holds no whitespace
RECURSIVE SkipSpace(_, _)
SkipSpace(text, i) ==
  IF i <= Len(text) /\ IsSpace(text[i]) THEN SkipSpace(text, i + 1) ELSE i

\* SENTENCE_SPLIT_RE.split(text), with SENTENCE_SPLIT_RE = (?<=[.!?])\s+ :
\* the text is cut at every run of whitespace that follows ".", "!" or "?"
RECURSIVE SplitFrom(_, _, _)
SplitFrom(text, i, start) ==
  IF i > Len(text) THEN << SubSeq(text, start, Len(text)) >>
  ELSE IF IsSpace(text[i]) /\ i > 1 /\ IsTerminal(text[i - 1])
       THEN LET j == SkipSpace(text, i)
            IN << SubSeq(text, start, i - 1) >> \o SplitFrom(text, j, j)
       ELSE SplitFrom(text, i + 1, start)

SentenceSplit(text) == SplitFrom(text, 1, 1)

\* any(keyword in normalized for keyword in PRACTICE_KEYWORDS)
HasKeyword(normalized) == \E i \in 1..Len(normalized) : normalized[i] = "K"

\* ========================================= _build_recent_practice_digest
\* max_entries: int = 3
MaxEntries == 3

\* "I didn't spot specific practice highlights yet. Ask for a quick drill
\* or share what you just practiced, then try again.", the literal
\* returned for an empty transcript
EmptyTranscriptText ==
  << "x", " ", "K", " ", "x", ".", " ", "x", " ", "K", ",", " ", "x", "." >>
\* the literal returned when no sentence was collected
NoHighlightsText ==
  << "x", " ", "K", " ", "x", ".", " ", "x", " ", "K", ",", " ", "x", "." >>

Fallback(text) == [fallback |-> TRUE, highlights |-> <<>>, text |-> text]

\* "\n".join(highlights), a highlight being f"- {speaker}: {cleaned}"
RECURSIVE JoinHighlights(_)
JoinHighlights(highlights) ==
  IF highlights = <<>> THEN <<>>
  ELSE LET line == << "-", " ", Head(highlights).speaker, ":", " " >>
                     \o Head(highlights).sentence
       IN IF Len(highlights) = 1 THEN line
          ELSE line \o << "\n" >> \o JoinHighlights(Tail(highlights))

\* "Here's a quick retention recap based on your recent chat:\n" + the
\* joined highlights
RecapText(highlights) ==
  << "x", " ", "K", " ", "K", " ", "x", ":", "\n" >>
    \o JoinHighlights(highlights)

\* a digest that returns the recap even when nothing was collected
BuildDigestNoFallback(messages) ==
  IF messages = <<>> THEN Fallback(EmptyTranscriptText)
  ELSE [fallback |-> FALSE, highlights |-> <<>>, text |-> RecapText(<<>>)]

\* a digest that never stops collecting
DigestSentencesNoCap(sentences, k, role, highlights) ==
  LET Keep(sn) == HasKeyword(Lower(Strip(sn)))
      idx == { i \in k..Len(sentences) : Keep(sentences[i]) }
      F[i \in (k - 1)..Len(sentences)] ==
        IF i < k THEN highlights
        ELSE IF i \in idx
             THEN Append(F[i - 1],
                    [speaker |-> IF role = "user" THEN "You" ELSE "Tutor",
                     sentence |-> Strip(sentences[i])])
             ELSE F[i - 1]
  IN F[Len(sentences)]

\* the loop "for sentence in sentences" from sentence k on
RECURSIVE DigestSentences(_, _, _, _)
DigestSentences(sentences, k, role, highlights) ==
  IF k > Len(sentences) THEN highlights
  ELSE LET cleaned == Strip(sentences[k])
       IN IF cleaned = <<>>
          THEN DigestSentences(sentences, k + 1, role, highlights)
          ELSE IF HasKeyword(Lower(cleaned))
          THEN LET more == Append(highlights,
                             [speaker |-> IF role = "user" THEN "You"
                                          ELSE "Tutor",
                              sentence |-> cleaned])
               IN IF Len(more) >= MaxEntries THEN more
                  ELSE DigestSentences(sentences, k + 1, role, more)
          ELSE DigestSentences(sentences, k + 1, role, highlights)

\* the loop "for message in reversed(messages)" from message m down
RECURSIVE DigestMessages(_, _, _)
DigestMessages(messages, m, highlights) ==
  IF m < 1 THEN highlights
  ELSE LET content == Strip(messages[m].content)
       IN IF content = <<>> THEN DigestMessages(messages, m - 1, highlights)
          ELSE LET more == DigestSentences(SentenceSplit(content), 1,
                                           messages[m].role, highlights)
               IN IF Len(more) >= MaxEntries THEN more
                  ELSE DigestMessages(messages, m - 1, more)

BuildRecentPracticeDigest(messages) ==
  IF messages = <<>> THEN Fallback(EmptyTranscriptText)
  ELSE LET highlights == DigestMessages(messages, Len(messages), <<>>)
       IN IF highlights # <<>>
          THEN [fallback |-> FALSE, highlights |-> highlights,
                text |-> RecapText(highlights)]
          ELSE Fallback(NoHighlightsText)

\* ============================================================ chat turn
\* render_ai_tutor_panel(user_name="Mukesh"): the name, as a piece of text
USER_NAME == "Mukesh"

\* a value that is a str, or None
StrValue(text) == [is_none |-> FALSE, text |-> text]
NoneValue == [is_none |-> TRUE, text |-> <<>>]

\* "I'm having trouble contacting the full AI service right now, but
\* conceptually: I am your Data Engineer tutor. Ask me about storage,
\* pipelines, SQL, or cloud and I'll guide you based on the roadmap."
ServiceDownText ==
  << "trouble", ",", " ", "conceptually", ":", " ", "tutor", ".", " ",
     "Ask", " ", "roadmap", "." >>
\* "I don't have direct access to the LLM in this environment, but I'm
\* your Data Engineer tutor. Use the roadmap and assessment above as your
\* guide, and we can still talk through concepts."
NoClientText ==
  << "access", ",", " ", "tutor", ".", " ", "Use", " ", "concepts", "." >>
\* "I generated a response but could not parse the text output."
CouldNotParseText == << "generated", " ", "parse", "." >>

\* what the external service does with one request.  api is the shape
\* _should_use_responses_api selects; result is what the call does: it
\* raises, it returns no choice / no output block, it returns a message
\* whose content is None, or it returns the text `text`
ServiceTexts ==
  { <<>>, << " " >>, << "x", "." >>, << " ", "x", "!", " " >>,
    << USER_NAME, ",", " ", "K", "." >> }
ServiceOutcomes ==
  [api : {"chat", "responses"},
   result : {"raises", "nothing", "content_none"}, text : { <<>> }]
  \cup [api : {"chat", "responses"}, result : {"text"}, text : ServiceTexts]

\* _generate_llm_reply: the value returned, or the exception raised
GenerateLlmReply(o) ==
  IF o.result = "raises" THEN [exc |-> "APIError", value |-> NoneValue]
  ELSE IF o.api = "responses"
  THEN \* _extract_text_from_responses gives "" unless a block holds text
       LET text == IF o.result = "text" THEN Strip(o.text) ELSE <<>>
       IN [exc |-> NoException,
           value |-> StrValue(IF text # <<>> THEN text
                              ELSE CouldNotParseText)]
  ELSE \* completion.choices[0].message.content
       IF o.result = "nothing"
       THEN [exc |-> "IndexError", value |-> NoneValue]
       ELSE IF o.result = "content_none"
       THEN [exc |-> NoException, value |-> NoneValue]
       ELSE [exc |-> NoException, value |-> StrValue(o.text)]

\* lines 745-776: `response` before response.strip()
TutorResponse(client, o) ==
  IF client = None THEN StrValue(NoClientText)
  ELSE LET r == GenerateLlmReply(o)
       IN IF r.exc # NoException THEN StrValue(ServiceDownText)
          ELSE r.value

\* lines 778-780: response.strip(), then the user's name put in front
\* unless the response holds it
NamedResponse(response) ==
  LET text == Strip(response)
  IN IF \E i \in 1..Len(text) : text[i] = USER_NAME THEN text
     ELSE << USER_NAME, ",", " " >> \o text

ChatMessage(role, content) == [role |-> role, content |-> content]

\* system_prompt: "You are an Adaptive AI Tutor for Data Engineers. Focus
\* ONLY on data engineering topics ... Do NOT ask quiz questions unless the
\* user explicitly requests practice questions."
SystemPromptText ==
  << "Tutor", ".", " ", "Focus", " ", "ONLY", ".", " ", "Do", " ", "NOT",
     " ", "quiz", " ", "K", "." >>

\* the whole transcript instead of its last six turns
ChatHistoryWhole(messages) == messages

\* st.session_state.tutor_chat_messages[-6:], copied turn by turn
ChatHistory(messages) ==
  LET n == Len(messages)
  IN IF n <= 6 THEN messages ELSE SubSeq(messages, n - 5, n)

\* messages = [{"role": "system", "content": system_prompt}] + chat_history
Request(messages) ==
  << ChatMessage("system", SystemPromptText) >> \o ChatHistory(messages)

\* current_signature = (digest, len(existing_messages))
Signature(digest, n) == [is_none |-> FALSE, digest |-> digest, len |-> n]

\* the digest appended to the transcript without its chat_message event
DigestRequestNoLog(requested, messages, last_signature, f, now) ==
  IF ~requested
  THEN [messages |-> messages, signature |-> last_signature, fs |-> f,
        clock |-> now, flag |-> FALSE, exc |-> NoException]
  ELSE LET digest == BuildRecentPracticeDigest(messages).text
       IN [messages |-> Append(messages, ChatMessage("assistant", digest)),
           signature |-> Signature(digest, Len(messages)), fs |-> f,
           clock |-> now, flag |-> FALSE, exc |-> NoException]

\* lines 712-722, "if st.session_state.get("tutor_show_practice_summary")":
\* the transcript, the signature, the file, the clock and the flag after
\* it, and the exception that ended the run
DigestRequest(requested, messages, last_signature, f, now) ==
  IF ~requested
  THEN [messages |-> messages, signature |-> last_signature, fs |-> f,
        clock |-> now, flag |-> FALSE, exc |-> NoException]
  ELSE LET digest == BuildRecentPracticeDigest(messages).text
           current_signature == Signature(digest, Len(messages))
       IN IF current_signature # last_signature
          THEN LET summary_msg == ChatMessage("assistant", digest)
                   l == LogEvent(f, Event("tutor_chat_message", USER_ID,
                                          Now(now), summary_msg))
               IN IF l.exc # NoException
                  THEN [messages |-> Append(messages, summary_msg),
                        signature |-> last_signature, fs |-> l.fs,
                        clock |-> now + 1, flag |-> TRUE, exc |-> l.exc]
                  ELSE [messages |-> Append(messages, summary_msg),
                        signature |-> current_signature, fs |-> l.fs,
                        clock |-> now + 1, flag |-> FALSE,
                        exc |-> NoException]
          ELSE [messages |-> messages, signature |-> last_signature,
                fs |-> f, clock |-> now, flag |-> FALSE,
                exc |-> NoException]

\* lines 729-789, "if user_input:": the transcript, the file and the clock
\* after it, the exception that ended the run, and the request handed to
\* _generate_llm_reply (sent = FALSE: none was)
UserTurn(messages, f, now, client, user_input, o) ==
  LET user_msg  == ChatMessage("user", user_input)
      with_user == Append(messages, user_msg)
      l1        == LogEvent(f, Event("tutor_chat_message", USER_ID, Now(now),
                                     user_msg))
      sent      == client # None
      request   == IF sent THEN Request(with_user) ELSE <<>>
      response  == TutorResponse(client, o)
  IN IF l1.exc # NoException
     THEN [messages |-> with_user, fs |-> l1.fs, clock |-> now + 1,
           exc |-> l1.exc, sent |-> FALSE, request |-> <<>>]
     ELSE IF response.is_none
     THEN \* None.strip()
          [messages |-> with_user, fs |-> l1.fs, clock |-> now + 1,
           exc |-> "AttributeError", sent |-> sent, request |-> request]
     ELSE LET reply == ChatMessage("assistant", NamedResponse(response.text))
              l2    == LogEvent(l1.fs, Event("tutor_chat_message", USER_ID,
                                             Now(now + 1), reply))
          IN [messages |-> Append(with_user, reply), fs |-> l2.fs,
              clock |-> now + 2, exc |-> l2.exc, sent |-> sent,
              request |-> request]

\* ================================================ _summarize_user_metrics
\* [e for e in events if <condition on e>]
RECURSIVE EventsOfUser(_, _)
EventsOfUser(events, user_id) ==
  IF events = <<>> THEN <<>>
  ELSE LET rest == EventsOfUser(Tail(events), user_id)
       IN IF Head(events).user_id = user_id THEN << Head(events) >> \o rest
          ELSE rest

RECURSIVE EventsOfType(_, _)
EventsOfType(events, type) ==
  IF events = <<>> THEN <<>>
  ELSE LET rest == EventsOfType(Tail(events), type)
       IN IF Head(events).type = type THEN << Head(events) >> \o rest
          ELSE rest

\* a session's minutes without the minimum of 1
SessionMinutesNoMinimum(start, end) ==
  LET ds    == (end.day - start.day) * SecondsPerDay + end.sec - start.sec
      whole == IF end.micro < start.micro THEN ds - 1 ELSE ds
  IN IF whole < 0 THEN 0 ELSE whole \div 60

\* max(1, int((end - start).total_seconds() / 60)); int() cuts toward 0
SessionMinutes(start, end) ==
  LET ds    == (end.day - start.day) * SecondsPerDay + end.sec - start.sec
      whole == IF end.micro < start.micro THEN ds - 1 ELSE ds
  IN IF whole < 60 THEN 1 ELSE whole \div 60

RECURSIVE TotalMinutes(_)
TotalMinutes(sessions) ==
  IF sessions = <<>> THEN 0
  ELSE SessionMinutes(Head(sessions)[1], Head(sessions)[2])
         + TotalMinutes(Tail(sessions))

\* a timestamp that is None
NoStamp == [kind |-> "none", day |-> 0, sec |-> 0, micro |-> 0]

\* [_parse_timestamp(e["timestamp"]) for e in events if e.get("timestamp")]
\* without the ones that are None
RECURSIVE ParsedStamps(_)
ParsedStamps(events) ==
  IF events = <<>> THEN <<>>
  ELSE LET rest == ParsedStamps(Tail(events))
       IN IF Parses(Head(events).timestamp)
          THEN << Head(events).timestamp >> \o rest
          ELSE rest

\* [event["data"].get("topic") for event in reversed(question_events[-6:])]
RECURSIVE RecentTopics(_)
RecentTopics(question_events) ==
  LET n == Len(question_events)
  IN IF n = 0 THEN <<>>
     ELSE IF n > 6 THEN RecentTopics(SubSeq(question_events, n - 5, n))
     ELSE << question_events[n].data.topic >>
            \o RecentTopics(SubSeq(question_events, 1, n - 1))

\* the pillar_tracker loop: a defaultdict in insertion order, kept as a
\* sequence of [pillar, total, correct]; event["data"].get("pillar",
\* "General") names the entry
RECURSIVE PillarTracker(_)
PillarTracker(question_events) ==
  IF question_events = <<>> THEN <<>>
  ELSE LET n    == Len(question_events)
           d    == question_events[n].data
           prev == PillarTracker(SubSeq(question_events, 1, n - 1))
           p    == IF "pillar" \in DOMAIN d THEN d.pillar ELSE "General"
           i    == StatIndex(prev, p)
           inc  == IF d.correct THEN 1 ELSE 0
       IN IF i = 0
          THEN Append(prev, [pillar |-> p, total |-> 1, correct |-> inc])
          ELSE [prev EXCEPT ![i] = [pillar  |-> p,
                                    total   |-> prev[i].total + 1,
                                    correct |-> prev[i].correct + inc]]

\* lines 116-117 and 128-130: question_count, correct_count and accuracy
\* over the user's tutor_question_answered events; accuracy is the exact
\* fraction [num, den], 0/1 when there is no such event
QuestionStats(f, user_id) ==
  LET events == EventsOfUser(LoadEventsAnalytics(f).value.items, user_id)
      question_events == EventsOfType(events, "tutor_question_answered")
      question_count  == Len(question_events)
      correct_count   == Cardinality({ i \in 1..question_count :
                                         question_events[i].data.correct })
  IN [question_count |-> question_count,
      correct_count |-> correct_count,
      accuracy |-> IF question_count > 0
                   THEN [num |-> correct_count, den |-> question_count]
                   ELSE [num |-> 0, den |-> 1]]

\* the first assessment instead of the last
LevelEntryFirst(assessment_events) == assessment_events[1]

\* level_entry = assessment_events[-1]
LevelEntry(assessment_events) == assessment_events[Len(assessment_events)]

\* the snapshot, `now` being datetime.utcnow().date() at the call
SummarizeUserMetrics(f, user_id, now) ==
  LET events == EventsOfUser(LoadEventsAnalytics(f).value.items, user_id)
      question_events   == EventsOfType(events, "tutor_question_answered")
      assessment_events == EventsOfType(events, "tutor_assessment_completed")
      sessions       == ChunkSessions(events)
      counts         == QuestionStats(f, user_id)
      question_count == counts.question_count
      correct_count  == counts.correct_count
      accuracy       == counts.accuracy
      has_level == assessment_events # <<>>
      level_entry == LevelEntry(assessment_events)
      stats == IF has_level THEN level_entry.data.pillar_stats ELSE <<>>
  IN [level |-> IF has_level THEN level_entry.data.level ELSE 1,
      score |-> IF has_level THEN level_entry.data.score ELSE accuracy,
      question_count |-> question_count,
      correct_count |-> correct_count,
      accuracy |-> accuracy,
      pillar_stats |-> IF stats = <<>> /\ question_count > 0
                       THEN PillarTracker(question_events) ELSE stats,
      sessions |-> Len(sessions),
      active_minutes |-> TotalMinutes(sessions),
      streak_days |-> CalculateStreak(ParsedStamps(events), now),
      primary_focus |-> IF has_level
                        THEN level_entry.data.primary_recommendation ELSE None,
      secondary_focus |-> IF has_level
                          THEN level_entry.data.secondary_recommendations
                          ELSE <<>>,
      recent_topics |-> RecentTopics(question_events),
      last_assessed |-> IF has_level /\ Parses(level_entry.timestamp)
                        THEN level_entry.timestamp ELSE NoStamp]

\* the exception _summarize_user_metrics ends with: line 175 reads
\* level_entry["timestamp"] with a subscript, which raises KeyError for an
\* event dict that has no such key
SummarizeRaises(f, user_id) ==
  LET events == EventsOfUser(LoadEventsAnalytics(f).value.items, user_id)
      assessment_events == EventsOfType(events, "tutor_assessment_completed")
  IN IF assessment_events # <<>>
        /\ LevelEntry(assessment_events).timestamp.kind = "missing"
     THEN "KeyError" ELSE NoException

\* ========================================================== SpecLatest
\* get_latest_summary as a function of the log file: Init draws the log,
\* GetLatest calls get_latest_summary for a user.
SamplePayloads ==
  { CompletedPayload(ComputeLevelAndSummary(<< AnswerRecord(0, 0) >>)),
    CompletedPayload(ComputeLevelAndSummary(<< AnswerRecord(1, 1) >>)) }

LatestEvents ==
  { Event("tutor_assessment_completed", u, ts, d) :
      u \in {USER_ID, OTHER_USER}, ts \in 1..2, d \in SamplePayloads }
  \cup
  { Event("tutor_question_answered", u, ts, QuestionPayload(0, 0)) :
      u \in {USER_ID, OTHER_USER}, ts \in 1..2 }

LatestDraw ==
  /\ fs \in { [dir |-> "present", kind |-> "array", events |-> l,
               access |-> "rw"] : l \in SeqsUpTo(LatestEvents, MaxLatestLog) }
            \cup { FreshInstall }
  /\ clock = 3
  /\ latest_summary = NoResult
  /\ WizardInit /\ PanelInit /\ StoreInit /\ SummaryInit /\ ChunkInit
  /\ StreakInit /\ ChatInit /\ MetricsInit

GetLatest(user_id) ==
  /\ latest_summary' =
       [computed |-> TRUE, user_id |-> user_id,
        value |-> GetLatestSummary(LoadEventsTutor(fs).value.items, user_id)]
  /\ fs' = GetDataDir(fs)
  /\ UNCHANGED << clock, sessionVars, storeVars, summaryVars, chunkVars,
                  streakVars, chatVars, metricsVars >>

LatestNext == \E u \in {USER_ID, OTHER_USER} : GetLatest(u)

SpecLatest == LatestDraw /\ [][LatestNext]_vars

\* the positions of the user's tutor_assessment_completed events
CompletedOf(log, user_id) ==
  { i \in 1..Len(log) : /\ log[i].user_id = user_id
                        /\ log[i].type = "tutor_assessment_completed" }

\* C11: get_latest_summary(user) returns the level, the recommendations
\* and the timestamp of the user's tutor_assessment_completed event that
\* comes last in log order, whatever the timestamps and the other users'
\* events are, and an empty result when the user has none.
C11_LastInLogOrder ==
  latest_summary.computed =>
    LET log == LogOf(fs)
        S   == CompletedOf(log, latest_summary.user_id)
        v   == latest_summary.value
    IN IF S = {} THEN v = EmptyDict
       ELSE \E m \in S :
              /\ \A j \in S : j <= m
              /\ ~v.empty
              /\ v.level = log[m].data.level
              /\ v.last_assessed_at = log[m].timestamp
              /\ v.primary_recommendation = log[m].data.primary_recommendation
              /\ v.secondary_recommendations =
                   log[m].data.secondary_recommendations

\* the user's last completed assessment is older by timestamp than an
\* earlier one with another level, and another user's comes after it
C11_Witness ==
  /\ latest_summary.computed
  /\ LET log == LogOf(fs)
         u   == latest_summary.user_id
     IN /\ Len(log) = 3
        /\ CompletedOf(log, u) = {1, 2}
        /\ log[2].timestamp < log[1].timestamp
        /\ log[2].data.level # log[1].data.level
        /\ log[3].user_id # u /\ log[3].type = "tutor_assessment_completed"
        /\ latest_summary.value.level = log[2].data.level

\* ========================================================= SpecSessions
\* _chunk_sessions as a function: Init draws one user's events, in any
\* order, Chunk applies _chunk_sessions to them.
\* 29, 30 and 31 minutes after the first second of the day
SessionSeconds == {0, 29 * 60, 30 * 60, 31 * 60}
SessionStamps ==
  { IsoStamp(1, sec, micro) : sec \in SessionSeconds, micro \in {0, 500000} }
  \cup { BadStamp, EmptyStamp }
SessionEvents ==
  { Event("tutor_chat_message", USER_ID, ts, "d1") : ts \in SessionStamps }

SessionsDraw ==
  /\ chunk_events \in SeqsUpTo(SessionEvents, MaxSessionEvents)
  /\ chunk_result = NoResult
  /\ fs = FreshInstall /\ clock = 0
  /\ WizardInit /\ PanelInit /\ StoreInit /\ SummaryInit /\ LatestInit
  /\ StreakInit /\ ChatInit /\ MetricsInit

Chunk ==
  /\ ~chunk_result.computed
  /\ chunk_result' = [computed |-> TRUE,
                      sessions |-> ChunkSessions(chunk_events)]
  /\ UNCHANGED << chunk_events, fs, clock, sessionVars, storeVars,
                  summaryVars, latestVars, streakVars, chatVars,
                  metricsVars >>

SessionsNext == Chunk

SpecSessions == SessionsDraw /\ [][SessionsNext]_vars

\* the parseable timestamps among the events
ParsedTimes(events) ==
  { events[i].timestamp : i \in { j \in 1..Len(events) :
                                     Parses(events[j].timestamp) } }

\* the times that open a session when the events are taken in ascending
\* order of time: those with no earlier time at most 30 minutes before
SessionStarts(times) ==
  { t \in times : ~\E u \in times : TimeLess(u, t) /\ WithinIdleLimit(t, u) }

\* C12: the number of sessions is 0 when no event has a parseable
\* timestamp and otherwise 1 plus the number of pairs of events,
\* consecutive in ascending order of time, more than 30 minutes apart,
\* in whatever order the events sit in the log.
C12_SessionCount ==
  chunk_result.computed =>
    Len(chunk_result.sessions)
      = Cardinality(SessionStarts(ParsedTimes(chunk_events)))

\* the same statement for events whose timestamp strings all carry a
\* fraction, or all carry none
UniformStamps(events) ==
  \A i, j \in 1..Len(events) :
    (Parses(events[i].timestamp) /\ Parses(events[j].timestamp))
      => ((events[i].timestamp.micro = 0) = (events[j].timestamp.micro = 0))

SessionCountOnUniformStamps ==
  (chunk_result.computed /\ UniformStamps(chunk_events)) =>
    Len(chunk_result.sessions)
      = Cardinality(SessionStarts(ParsedTimes(chunk_events)))

\* =========================================================== SpecStreak
\* _calculate_streak as a function of the dates and of the clock: Init
\* draws the dates and today, Streak applies _calculate_streak.
StreakStamps == { IsoStamp(d, 0, 500000) : d \in 1..MaxDay }

StreakDraw ==
  /\ streak_dates \in SeqsUpTo(StreakStamps, MaxStreakDates)
  /\ today \in 1..(MaxDay + 1)
  /\ streak_result = NoResult
  /\ fs = FreshInstall /\ clock = 0
  /\ WizardInit /\ PanelInit /\ StoreInit /\ SummaryInit /\ LatestInit
  /\ ChunkInit /\ ChatInit /\ MetricsInit

Streak ==
  /\ ~streak_result.computed
  /\ streak_result' = [computed |-> TRUE,
                       streak |-> CalculateStreak(streak_dates, today)]
  /\ UNCHANGED << today, streak_dates, fs, clock, sessionVars, storeVars,
                  summaryVars, latestVars, chunkVars, chatVars,
                  metricsVars >>

StreakNext == Streak

SpecStreak == StreakDraw /\ [][StreakNext]_vars

\* the number of consecutive days in D that end at day e
RunEndingAt(D, e) ==
  CHOOSE k \in 0..Cardinality(D) :
    /\ \A j \in 0..(k - 1) : (e - j) \in D
    /\ (e - k) \notin D

\* C13: the streak is 0 when there is no date with activity; when today
\* has activity it is the number of consecutive active days ending today;
\* otherwise it is the number of consecutive active days ending at the
\* most recent active date, hence at least 1.
C13_Streak ==
  streak_result.computed =>
    LET D == { streak_dates[i].day : i \in 1..Len(streak_dates) }
    IN /\ D = {} => streak_result.streak = 0
       /\ (D # {} /\ today \in D)
            => streak_result.streak = RunEndingAt(D, today)
       /\ (D # {} /\ today \notin D)
            => /\ \E m \in D : /\ \A d \in D : d <= m
                                /\ streak_result.streak = RunEndingAt(D, m)
               /\ streak_result.streak >= 1
       /\ ({today, today - 1, today - 2} \subseteq D /\ (today - 3) \notin D)
            => streak_result.streak = 3

\* no activity today, activity on the two days before, and an older
\* active day that is not part of the run
C13_Witness ==
  /\ streak_result.computed
  /\ LET D == { streak_dates[i].day : i \in 1..Len(streak_dates) }
     IN /\ D = {today - 1, today - 2, today - 4}
        /\ streak_result.streak = 2

\* =========================================================== SpecDigest
\* _build_recent_practice_digest as a function: Init draws the transcript,
\* Digest applies the function to it.
DigestContents ==
  { <<>>, << " " >>, << "x" >>, << "K" >>, << "x", " ", "U", "." >>,
    << "x", " ", "K", " ", "x", " ", "x" >>,
    << "K", ".", " ", "x", "." >>, << "x", "!", "\n", "K" >>,
    << "K", ".", "K" >>,
    << "K", "!", " ", "x", "?", " ", "U", ".", " ", " ", "K", ".", " ", "K" >> }

DigestMessageSet == [role : {"user", "assistant"}, content : DigestContents]

DigestDraw ==
  /\ tutor_chat_messages \in SeqsUpTo(DigestMessageSet, MaxTranscript)
  /\ digest_result = NoResult
  /\ tutor_llm_client = None /\ chat_exc = NoException
  /\ DigestInit
  /\ fs = FreshInstall /\ clock = 0
  /\ WizardInit /\ PanelInit /\ StoreInit /\ SummaryInit /\ LatestInit
  /\ ChunkInit /\ StreakInit /\ MetricsInit

Digest ==
  /\ ~digest_result.computed
  /\ digest_result' =
       [computed |-> TRUE,
        digest |-> BuildRecentPracticeDigest(tutor_chat_messages)]
  /\ UNCHANGED << tutor_chat_messages, tutor_llm_client, chat_exc, fs, clock,
                  digestVars, sessionVars, storeVars, summaryVars, latestVars,
                  chunkVars, streakVars, metricsVars >>

DigestNext == Digest

SpecDigest == DigestDraw /\ [][DigestNext]_vars

\* the positions where a sentence begins: the piece is no whitespace and
\* what lies before it is only whitespace up to the start of the text or
\* up to a piece that ends a sentence
SentenceStarts(text) ==
  { a \in 1..Len(text) :
      /\ ~IsSpace(text[a])
      /\ \/ \A i \in 1..(a - 1) : IsSpace(text[i])
         \/ /\ a > 2 /\ IsSpace(text[a - 1])
            /\ \E e \in 1..(a - 2) :
                 /\ IsTerminal(text[e])
                 /\ \A i \in (e + 1)..(a - 1) : IsSpace(text[i]) }

\* the sentence that begins at a: it runs up to the next sentence ender
\* that is followed by whitespace, or to the last piece that is no
\* whitespace
SentenceAt(text, a) ==
  LET ends == { e \in a..Len(text) :
                  \/ /\ IsTerminal(text[e]) /\ e < Len(text)
                     /\ IsSpace(text[e + 1])
                     /\ \E i \in (e + 1)..Len(text) : ~IsSpace(text[i])
                  \/ /\ ~IsSpace(text[e])
                     /\ \A i \in (e + 1)..Len(text) : IsSpace(text[i]) }
      b == CHOOSE e \in ends : \A f \in ends : e <= f
  IN SubSeq(text, a, b)

RECURSIVE Ascending(_)
Ascending(S) ==
  IF S = {} THEN <<>>
  ELSE LET m == CHOOSE x \in S : \A y \in S : x <= y
       IN << m >> \o Ascending(S \ {m})

\* the keyword-bearing sentences of one message, in their order, labelled
KeywordBullets(message) ==
  LET text   == message.content
      starts == Ascending({ a \in SentenceStarts(text) :
                  \E i \in 1..Len(SentenceAt(text, a)) :
                    SentenceAt(text, a)[i] \in {"K", "U"} })
  IN [n \in 1..Len(starts) |->
        [speaker |-> IF message.role = "user" THEN "You" ELSE "Tutor",
         sentence |-> SentenceAt(text, starts[n])]]

\* those of the whole transcript, most recent message first
RECURSIVE AllKeywordBullets(_)
AllKeywordBullets(messages) ==
  IF messages = <<>> THEN <<>>
  ELSE LET n == Len(messages)
       IN KeywordBullets(messages[n])
            \o AllKeywordBullets(SubSeq(messages, 1, n - 1))

\* C14: for a non-empty transcript the digest's bullets are exactly the
\* first min(3, k) keyword-bearing sentences, k being the number of such
\* sentences in the transcript, taken most recent message first and in
\* their order within a message; a bullet is labelled "You" for a user
\* message and "Tutor" otherwise; there are never more than 3 bullets.
C14_DigestSelection ==
  (digest_result.computed /\ tutor_chat_messages # <<>>) =>
    LET all     == AllKeywordBullets(tutor_chat_messages)
        bullets == digest_result.digest.highlights
    IN /\ Len(bullets) = Min(3, Len(all))
       /\ bullets = SubSeq(all, 1, Len(bullets))
       /\ Len(bullets) <= 3

\* more than 3 keyword-bearing sentences, and the 3 bullets come from
\* messages of both speakers
C14_Witness ==
  /\ digest_result.computed
  /\ Len(AllKeywordBullets(tutor_chat_messages)) > 3
  /\ Len(digest_result.digest.highlights) = 3
  /\ digest_result.digest.highlights[1].speaker = "You"
  /\ digest_result.digest.highlights[3].speaker = "Tutor"

\* C15: the digest is the fixed fallback string exactly when the
\* transcript is empty or no sentence of any message holds a practice
\* keyword, and the fallback is the same string in both cases; otherwise
\* it is a recap with at least one bullet; the single user message
\* "I practiced joins today" gives a bullet that holds the keyword.
C15_FallbackOrRecap ==
  digest_result.computed =>
    LET d   == digest_result.digest
        all == AllKeywordBullets(tutor_chat_messages)
    IN /\ d.fallback <=> (tutor_chat_messages = <<>> \/ all = <<>>)
       /\ d.fallback => (d.text = EmptyTranscriptText
                          /\ d.text = NoHighlightsText)
       /\ ~d.fallback => /\ Len(d.highlights) >= 1
                         /\ d.text = RecapText(d.highlights)
                         /\ d.text # EmptyTranscriptText
       /\ tutor_chat_messages
            = << [role |-> "user",
                  content |-> << "x", " ", "K", " ", "x", " ", "x" >>] >>
          => /\ ~d.fallback
             /\ d.highlights[1].speaker = "You"
             /\ \E i \in 1..Len(d.highlights[1].sentence) :
                  d.highlights[1].sentence[i] = "K"

\* a transcript of several messages with text but without any keyword
C15_Witness ==
  /\ digest_result.computed
  /\ digest_result.digest.fallback
  /\ Len(tutor_chat_messages) >= 2
  /\ \A i \in 1..Len(tutor_chat_messages) :
       Strip(tutor_chat_messages[i].content) # <<>>

\* ============================================================= SpecChat
\* The chat section of the tutor panel: each step is one run of
\* _render_chat_section with a user input and an outcome of the service.
UserInputs == { << "x", "?" >>, << "x", " ", "K", " ", "x", " ", "x" >> }

ChatDraw ==
  /\ tutor_chat_messages = <<>>
  /\ tutor_llm_client \in {None, "client"}
  /\ chat_exc = NoException
  /\ digest_result = NoResult
  /\ DigestInit
  /\ fs = GetDataDir(FreshInstall) /\ clock = 0
  /\ WizardInit
  /\ show_ai_tutor = TRUE /\ show_analytics = FALSE /\ backs = 0
  /\ StoreInit /\ SummaryInit /\ LatestInit /\ ChunkInit /\ StreakInit
  /\ MetricsInit

\* _render_chat_section in a run where the chat input was submitted: the
\* digest branch on the stored flag, then the user's turn
ChatTurn(user_input, o) ==
  /\ show_ai_tutor
  /\ LET dg == DigestRequest(tutor_show_practice_summary, tutor_chat_messages,
                             tutor_last_digest_signature, fs, clock)
         ut == UserTurn(dg.messages, dg.fs, dg.clock, tutor_llm_client,
                        user_input, o)
     IN /\ tutor_last_digest_signature' = dg.signature
        /\ tutor_show_practice_summary' = dg.flag
        /\ IF dg.exc # NoException
           THEN /\ tutor_chat_messages' = dg.messages
                /\ fs' = dg.fs /\ clock' = dg.clock
                /\ chat_exc' = dg.exc
                /\ chat_run' = [kind |-> "turn", sent |-> FALSE,
                                request |-> <<>>]
           ELSE /\ tutor_chat_messages' = ut.messages
                /\ fs' = ut.fs /\ clock' = ut.clock
                /\ chat_exc' = ut.exc
                /\ chat_run' = [kind |-> "turn", sent |-> ut.sent,
                                request |-> ut.request]
  /\ UNCHANGED << tutor_llm_client, digest_result, sessionVars, storeVars,
                  summaryVars, latestVars, chunkVars, streakVars,
                  metricsVars >>

ChatNext ==
  /\ Len(tutor_chat_messages) < 2 * MaxTurns
  /\ \E u \in UserInputs, o \in ServiceOutcomes : ChatTurn(u, o)

SpecChat == ChatDraw /\ [][ChatNext]_vars

\* C16: whatever the external service does (no client, the call raises,
\* the response has an unexpected or empty shape, the text is missing),
\* a chat turn ends without an exception and appends the user's message
\* and, right after it, exactly one assistant reply.
C16_TurnAlwaysReplies ==
  [][ tutor_chat_messages' # tutor_chat_messages =>
        LET n == Len(tutor_chat_messages)
        IN /\ chat_exc' = NoException
           /\ Len(tutor_chat_messages') = n + 2
           /\ SubSeq(tutor_chat_messages', 1, n) = tutor_chat_messages
           /\ tutor_chat_messages'[n + 1].role = "user"
           /\ tutor_chat_messages'[n + 2].role = "assistant" ]_vars

\* ========================================================== SpecMetrics
\* _summarize_user_metrics called again and again on one log while the
\* days go by: Init draws the log, NextDay moves the clock to the next
\* day, Summarize calls the function for a user.
MetricStamps ==
  { IsoStamp(d, 0, 500000) : d \in 1..(MaxDay - 1) }
  \cup { IsoStamp(1, 31 * 60, 500000) }
MetricEvents ==
  { Event("tutor_question_answered", USER_ID, ts, QuestionPayload(1, 1)) :
      ts \in MetricStamps }
  \cup
  { Event("tutor_assessment_completed", USER_ID, ts, d) :
      ts \in MetricStamps,
      d \in { CompletedPayload(ComputeLevelAndSummary(<< AnswerRecord(0, 0) >>)) } }
  \cup
  { Event("tutor_question_answered", OTHER_USER, IsoStamp(1, 0, 500000),
          QuestionPayload(0, 0)) }

MetricsDraw ==
  /\ fs \in { [dir |-> "present", kind |-> "array", events |-> l,
               access |-> "rw"] : l \in SeqsUpTo(MetricEvents, MaxMetricsLog) }
            \cup { FreshInstall }
  /\ today = 1
  /\ streak_dates = <<>> /\ streak_result = NoResult
  /\ metrics = [computed |-> FALSE, calls |-> 0]
  /\ clock = 0
  /\ WizardInit
  /\ show_ai_tutor = FALSE /\ show_analytics = TRUE /\ backs = 0
  /\ StoreInit /\ SummaryInit /\ LatestInit /\ ChunkInit /\ ChatInit

\* midnight UTC passes
NextDay ==
  /\ today <= MaxDay
  /\ today' = today + 1
  /\ UNCHANGED << fs, clock, sessionVars, storeVars, summaryVars, latestVars,
                  chunkVars, streak_dates, streak_result, chatVars,
                  metricsVars >>

Summarize(user_id) ==
  /\ metrics.calls < 2
  /\ metrics' =
       [computed |-> TRUE, calls |-> metrics.calls + 1,
        user_id |-> user_id, at |-> today,
        exc |-> SummarizeRaises(fs, user_id),
        value |-> IF SummarizeRaises(fs, user_id) = NoException
                  THEN SummarizeUserMetrics(fs, user_id, today)
                  ELSE NoResult,
        prev_user |-> IF metrics.computed THEN metrics.user_id ELSE None,
        prev_at |-> IF metrics.computed THEN metrics.at ELSE 0]
  /\ UNCHANGED << fs, clock, sessionVars, storeVars, summaryVars, latestVars,
                  chunkVars, streakVars, chatVars >>

MetricsNext ==
  \/ NextDay
  \/ \E u \in {USER_ID, OTHER_USER} : Summarize(u)

SpecMetrics == MetricsDraw /\ [][MetricsNext]_vars

\* the step is a second call for the same user (the log is the same: no
\* step of SpecMetrics writes it)
SameUserAgain ==
  /\ metrics.computed /\ metrics'.computed
  /\ metrics'.calls = metrics.calls + 1
  /\ metrics'.user_id = metrics.user_id
  /\ LogOf(fs') = LogOf(fs)

NothingDatedAfter(user_id, day) ==
  \A i \in 1..Len(LogOf(fs)) :
    (LogOf(fs)[i].user_id = user_id /\ Parses(LogOf(fs)[i].timestamp))
      => DateOf(LogOf(fs)[i].timestamp) <= day

NextStep ==
  /\ tutor_stage = "question" /\ tutor_stage' = "question"
  /\ tutor_question_index' = tutor_question_index + 1
FinishStep == tutor_stage = "question" /\ tutor_stage' = "summary"

\* the answer record inside a tutor_question_answered payload
AnswerPart(d) ==
  [question_id |-> d.question_id, pillar |-> d.pillar, topic |-> d.topic,
   selected_index |-> d.selected_index, correct_index |-> d.correct_index,
   correct |-> d.correct]

\* ev is the tutor_question_answered event of question idx whose answer
\* record is the last of answers
IsAnswerEvent(ev, idx, answers) ==
  /\ ev.type = "tutor_question_answered"
  /\ ev.user_id = USER_ID
  /\ ev.data.question_id = Questions[idx + 1].id
  /\ ev.data.difficulty = Questions[idx + 1].difficulty
  /\ answers # <<>>
  /\ AnswerPart(ev.data) = answers[Len(answers)]

\* C18: Next and Finish on question[i] append exactly one
\* tutor_question_answered event for question i (the answer record plus
\* the question's difficulty); Finish appends, right after it, exactly
\* one tutor_assessment_completed event whose data is compute_summary of
\* the session's answers; no other step appends an event.
C18_WizardSideEffects ==
  [][ LET log  == LogOf(fs)
          log2 == LogOf(fs')
          n    == Len(log)
      IN IF NextStep
         THEN /\ Len(log2) = n + 1 /\ SubSeq(log2, 1, n) = log
              /\ IsAnswerEvent(log2[n + 1], tutor_question_index,
                               tutor_answers')
         ELSE IF FinishStep
         THEN /\ Len(log2) = n + 2 /\ SubSeq(log2, 1, n) = log
              /\ tutor_question_index = NumQuestions - 1
              /\ IsAnswerEvent(log2[n + 1], tutor_question_index,
                               tutor_answers')
              /\ log2[n + 2].type = "tutor_assessment_completed"
              /\ log2[n + 2].user_id = USER_ID
              /\ log2[n + 2].data =
                   CompletedPayload(ComputeLevelAndSummary(tutor_answers'))
         ELSE log2 = log ]_vars

\* an assessment finished after one answer was discarded by "Back": seven
\* events, the last two written by Finish
C18_Witness ==
  /\ tutor_stage = "summary" /\ backs = 1
  /\ Len(LogOf(fs)) = NumQuestions + 2
  /\ LogOf(fs)[NumQuestions + 1].type = "tutor_question_answered"
  /\ LogOf(fs)[NumQuestions + 1].data.question_id = Questions[NumQuestions].id
  /\ LogOf(fs)[NumQuestions + 2].type = "tutor_assessment_completed"

\* the k-th answer is the answer to the k-th question
Aligned(answers) ==
  \A k \in 1..Len(answers) :
    /\ k <= NumQuestions
    /\ answers[k].question_id = Questions[k].id
    /\ answers[k].pillar = Questions[k].pillar
    /\ answers[k].topic = Questions[k].topic

RECURSIVE SumTotals(_)
SumTotals(stats) ==
  IF stats = <<>> THEN 0 ELSE Head(stats).total + SumTotals(Tail(stats))

C20_BackTransition ==
  [][ Back =>
        IF tutor_question_index > 0
        THEN /\ tutor_stage' = "question"
             /\ tutor_question_index' = tutor_question_index - 1
             /\ tutor_answers # <<>>
             /\ tutor_answers'
                  = SubSeq(tutor_answers, 1, Len(tutor_answers) - 1)
             /\ tutor_current_choice' = NoChoice
        ELSE /\ tutor_stage' = tutor_stage
             /\ tutor_question_index' = tutor_question_index
             /\ tutor_answers' = tutor_answers ]_vars

\* just after "Back" from question[2] to question[1]: one answer is
\* left, no choice is set, and the log holds the discarded answer's event
C20_Witness ==
  /\ tutor_stage = "question" /\ backs = 1
  /\ tutor_question_index = 1
  /\ Len(tutor_answers) = 1
  /\ tutor_current_choice = NoChoice
  /\ Len(LogOf(fs)) = 2

\* ========================================================= SpecSnapshot
\* _summarize_user_metrics as a function of the log, on logs whose events
\* may have a timestamp that is malformed, empty or not there: Init draws
\* the log, Summarize calls the function for a user.
\* the five answers of an assessment with option 1 / option 0 everywhere
AllOnes == [i \in 1..NumQuestions |-> AnswerRecord(i - 1, 1)]
AllZeros == [i \in 1..NumQuestions |-> AnswerRecord(i - 1, 0)]

SnapshotStamps ==
  { IsoStamp(1, 0, 500000), IsoStamp(1, 150, 500000), IsoStamp(2, 0, 500000),
    BadStamp, EmptyStamp, MissingStamp }
SnapshotEvents ==
  { Event("tutor_question_answered", USER_ID, ts, d) :
      ts \in SnapshotStamps,
      d \in { QuestionPayload(0, 1), QuestionPayload(1, 0) } }
  \cup
  { Event("tutor_assessment_completed", USER_ID, IsoStamp(1, 150, 500000),
          CompletedPayload(ComputeLevelAndSummary(a))) :
      a \in { AllOnes, AllZeros } }
  \cup
  { Event("tutor_assessment_completed", USER_ID, MissingStamp,
          CompletedPayload(ComputeLevelAndSummary(AllOnes))),
    Event("tutor_assessment_completed", USER_ID, BadStamp,
          CompletedPayload(ComputeLevelAndSummary(AllZeros))),
    Event("tutor_question_answered", OTHER_USER, IsoStamp(1, 0, 500000),
          QuestionPayload(0, 0)) }

SnapshotDraw ==
  /\ fs \in { [dir |-> "present", kind |-> "array", events |-> l,
               access |-> "rw"] : l \in SeqsUpTo(SnapshotEvents, MaxSnapshotLog) }
  /\ today = 2
  /\ streak_dates = <<>> /\ streak_result = NoResult
  /\ metrics = [computed |-> FALSE, calls |-> 0]
  /\ clock = 0
  /\ WizardInit
  /\ show_ai_tutor = FALSE /\ show_analytics = TRUE /\ backs = 0
  /\ StoreInit /\ SummaryInit /\ LatestInit /\ ChunkInit /\ ChatInit

SnapshotNext == \E u \in {USER_ID, OTHER_USER} : Summarize(u)

SpecSnapshot == SnapshotDraw /\ [][SnapshotNext]_vars

\* the positions in the log of the user's events of one type
IndicesOf(user_id, type) ==
  { i \in 1..Len(LogOf(fs)) : /\ LogOf(fs)[i].user_id = user_id
                              /\ LogOf(fs)[i].type = type }

\* a snapshot was returned
Returned == metrics.computed /\ metrics.exc = NoException

\* the pillar_stats hold one entry per pillar of the user's
\* question_answered events, with the number of these events and the
\* number of correct ones
GroupedByPillar(stats, Q) ==
  LET log == LogOf(fs)
      of(p) == { i \in Q : log[i].data.pillar = p }
  IN /\ \A k \in 1..Len(stats) :
          /\ of(stats[k].pillar) # {}
          /\ stats[k].total = Cardinality(of(stats[k].pillar))
          /\ stats[k].correct =
               Cardinality({ i \in of(stats[k].pillar) : log[i].data.correct })
          /\ \A j \in 1..Len(stats) : stats[j].pillar = stats[k].pillar => j = k
     /\ \A i \in Q : \E k \in 1..Len(stats) : stats[k].pillar = log[i].data.pillar

\* C23: the snapshot's level, score, pillar stats and recommendations are
\* those of the user's tutor_assessment_completed event that is last in log
\* order when there is one; without one the level is 1, there is no
\* recommendation, the pillar stats group the user's
\* tutor_question_answered events by pillar and the score is the accuracy,
\* correct events / all events, 0 when there are none.
C23_LevelSource ==
  Returned =>
    LET log == LogOf(fs)
        v   == metrics.value
        Q   == IndicesOf(metrics.user_id, "tutor_question_answered")
        A   == IndicesOf(metrics.user_id, "tutor_assessment_completed")
        nc  == Cardinality({ i \in Q : log[i].data.correct })
    IN IF A # {}
       THEN LET d == log[MaxOf(A)].data
            IN /\ v.level = d.level
               /\ v.score = d.score
               /\ v.pillar_stats = d.pillar_stats
               /\ v.primary_focus = d.primary_recommendation
               /\ v.secondary_focus = d.secondary_recommendations
       ELSE /\ v.level = 1
            /\ v.primary_focus = None
            /\ v.secondary_focus = <<>>
            /\ GroupedByPillar(v.pillar_stats, Q)
            /\ v.score = v.accuracy
            /\ IF Q = {} THEN v.accuracy.num = 0
               ELSE v.accuracy.num * Cardinality(Q) = nc * v.accuracy.den

\* a user whose log holds two different assessments, the earlier with
\* level 4 and the last with level 1
C23_Witness ==
  /\ Returned
  /\ LET log == LogOf(fs)
         A   == IndicesOf(metrics.user_id, "tutor_assessment_completed")
     IN /\ Cardinality(A) = 2
        /\ \E i, j \in A : i < j /\ log[i].data.level = 4
                                  /\ log[j].data.level = 1
        /\ metrics.value.level = 1

\* C24: summarize_user_metrics returns a snapshot for every log, whatever
\* events lack a timestamp or carry a malformed one; such events are left
\* out of the sessions and of the streak and are still counted in
\* question_count, correct_count and accuracy.
C24_PartialDataNeverAborts ==
  metrics.computed =>
    /\ metrics.exc = NoException
    /\ LET log == LogOf(fs)
           v   == metrics.value
           Q   == IndicesOf(metrics.user_id, "tutor_question_answered")
           T   == { i \in 1..Len(log) : /\ log[i].user_id = metrics.user_id
                                        /\ Parses(log[i].timestamp) }
       IN /\ v.question_count = Cardinality(Q)
          /\ v.correct_count = Cardinality({ i \in Q : log[i].data.correct })
          /\ (T = {}) = (v.sessions = 0)
          /\ (T = {}) = (v.streak_days = 0)
          /\ LET Dated(e) == e.user_id = metrics.user_id /\ Parses(e.timestamp)
                 dated    == SelectSeq(log, Dated)
             IN /\ v.sessions = Len(ChunkSessions(dated))
                /\ v.streak_days =
                     CalculateStreak(ParsedStamps(dated), metrics.at)

\* the floor of a session's length in minutes, at least 1
FloorMinutes(start, end) ==
  LET ds    == (end.day - start.day) * SecondsPerDay + end.sec - start.sec
      whole == IF end.micro < start.micro THEN ds - 1 ELSE ds
      m     == CHOOSE k \in -1..(MaxDay * 24 * 60) :
                 60 * k <= whole /\ whole < 60 * (k + 1)
  IN IF m < 1 THEN 1 ELSE m

RECURSIVE SumFloorMinutes(_)
SumFloorMinutes(sessions) ==
  IF sessions = <<>> THEN 0
  ELSE FloorMinutes(Head(sessions)[1], Head(sessions)[2])
         + SumFloorMinutes(Tail(sessions))

\* C25: active_minutes is the sum over the sessions of
\* max(1, floor(minutes of the session)); it is at least the number of
\* sessions, it is 0 exactly when there is no session, and a user with a
\* single dated event has one session of one minute.
C25_ActiveMinutes ==
  Returned =>
    LET v        == metrics.value
        events   == EventsOfUser(LogOf(fs), metrics.user_id)
        sessions == ChunkSessions(events)
    IN /\ v.sessions = Len(sessions)
       /\ v.active_minutes = SumFloorMinutes(sessions)
       /\ v.active_minutes >= v.sessions
       /\ (v.active_minutes = 0) = (v.sessions = 0)
       /\ Len(ParsedStamps(events)) = 1
            => v.sessions = 1 /\ v.active_minutes = 1

\* two sessions, one of 150 seconds (2 minutes) and one of a single event
\* (1 minute)
C25_Witness ==
  /\ Returned
  /\ metrics.value.sessions = 2
  /\ metrics.value.active_minutes = 3

\* C26: in every snapshot the level is the threshold function of the
\* snapshot's score: 1 up to 0.25, 2 up to 0.5, 3 up to 0.75, else 4.
C26_LevelIsThresholdOfScore ==
  Returned =>
    metrics.value.level =
      LevelOf(metrics.value.score.num, metrics.value.score.den)

\* ======================================================= SpecTranscript
\* The chat section in the session of a returning user (the log holds a
\* completed assessment, so the intro stage shows "Practice & retention"):
\* each step is one run of the page script, either the button or a chat
\* input.
ReturningUser ==
  [dir |-> "present", kind |-> "array", access |-> "rw",
   events |-> << Event("tutor_assessment_completed", USER_ID, Now(0),
                       CompletedPayload(ComputeLevelAndSummary(AllOnes))) >>]

\* what the service does in SpecTranscript: the call raises, the content
\* is None, or a text comes back
TranscriptOutcomes ==
  { [api |-> "chat", result |-> "raises", text |-> <<>>],
    [api |-> "chat", result |-> "content_none", text |-> <<>>],
    [api |-> "chat", result |-> "text", text |-> << "x", "." >>] }

TranscriptDraw ==
  /\ tutor_chat_messages = <<>>
  /\ tutor_llm_client \in {None, "client"}
  /\ chat_exc = NoException
  /\ digest_result = NoResult
  /\ DigestInit
  /\ fs = ReturningUser /\ clock = 1
  /\ WizardInit
  /\ show_ai_tutor = TRUE /\ show_analytics = FALSE /\ backs = 0
  /\ StoreInit /\ SummaryInit /\ LatestInit /\ ChunkInit /\ StreakInit
  /\ MetricsInit

\* _render_intro_stage: "Practice & retention" sets the flag (line 557);
\* _render_chat_section of the same run handles it (lines 712-722) and has
\* no chat input
PracticeRetention ==
  /\ show_ai_tutor /\ tutor_stage = "intro"
  /\ HasProfile(fs)
  /\ LET dg == DigestRequest(TRUE, tutor_chat_messages,
                             tutor_last_digest_signature, fs, clock)
     IN /\ tutor_chat_messages' = dg.messages
        /\ tutor_last_digest_signature' = dg.signature
        /\ tutor_show_practice_summary' = dg.flag
        /\ fs' = dg.fs /\ clock' = dg.clock
        /\ chat_exc' = dg.exc
        /\ chat_run' = [kind |-> "digest", sent |-> FALSE, request |-> <<>>]
  /\ UNCHANGED << tutor_llm_client, digest_result, sessionVars, storeVars,
                  summaryVars, latestVars, chunkVars, streakVars,
                  metricsVars >>

TranscriptNext ==
  /\ Len(tutor_chat_messages) < MaxChatLen
  /\ \/ PracticeRetention
     \/ \E u \in UserInputs, o \in TranscriptOutcomes : ChatTurn(u, o)

SpecTranscript == TranscriptDraw /\ [][TranscriptNext]_vars

\* the tutor_chat_message events of the log, in log order
ChatEvents ==
  LET IsChat(e) == e.type = "tutor_chat_message" /\ e.user_id = USER_ID
  IN SelectSeq(LogOf(fs), IsChat)

\* C21: in one session that starts with an empty transcript, after any
\* sequence of chat turns and digest requests, the tutor_chat_message
\* events of the log are, in log order, exactly the messages of the
\* transcript: same number, same roles, same contents.
C21_TranscriptIsLogged ==
  /\ Len(ChatEvents) = Len(tutor_chat_messages)
  /\ \A i \in 1..Len(tutor_chat_messages) :
       /\ ChatEvents[i].data.role = tutor_chat_messages[i].role
       /\ ChatEvents[i].data.content = tutor_chat_messages[i].content

\* a transcript that starts with the digest of the empty transcript, holds
\* a user turn and an assistant reply, and ends with a digest that is a
\* recap
C21_Witness ==
  /\ Len(tutor_chat_messages) >= 4
  /\ tutor_chat_messages[1] = ChatMessage("assistant", EmptyTranscriptText)
  /\ \E i \in 2..(Len(tutor_chat_messages) - 2) :
       /\ tutor_chat_messages[i].role = "user"
       /\ tutor_chat_messages[i + 1].role = "assistant"
  /\ chat_run.kind = "digest"
  /\ tutor_chat_messages[Len(tutor_chat_messages)].content
       # EmptyTranscriptText
  /\ Len(ChatEvents) = Len(tutor_chat_messages)

\* the position of the last user message of the transcript
LastUserTurn ==
  MaxOf({ i \in 1..Len(tutor_chat_messages) :
            tutor_chat_messages[i].role = "user" })

\* C22: the request of a chat turn is one system message followed by the
\* last min(6, n) turns of the transcript in order, n being the length of
\* the transcript once the user's message is appended: at most 7 messages,
\* the last one the message just submitted.
C22_RequestShape ==
  chat_run.sent =>
    LET n   == LastUserTurn
        k   == Min(6, n)
        req == chat_run.request
    IN /\ Len(req) = 1 + k
       /\ Len(req) <= 7
       /\ req[1] = ChatMessage("system", SystemPromptText)
       /\ \A j \in 1..k : req[1 + j] = tutor_chat_messages[n - k + j]
       /\ req[Len(req)] = tutor_chat_messages[n]
       /\ req[Len(req)].role = "user"

\* a turn submitted when the transcript held six messages: the request
\* leaves the first of the seven out
C22_Witness ==
  /\ chat_run.sent
  /\ LastUserTurn = 7
  /\ Len(chat_run.request) = 7
  /\ chat_run.request[2] = tutor_chat_messages[2]

\* C29: a digest request that follows a digest request, with no chat turn
\* in between, leaves the transcript and the log as they are; after every
\* run the request flag is false.
C29_RepeatSuppressed ==
  [][ /\ ~tutor_show_practice_summary'
      /\ (chat_run.kind = "digest" /\ chat_run'.kind = "digest")
           => /\ tutor_chat_messages' = tutor_chat_messages
              /\ LogOf(fs') = LogOf(fs) ]_vars

QuestionEvents(f) ==
  { i \in 1..Len(LogOf(f)) :
      /\ LogOf(f)[i].user_id = USER_ID
      /\ LogOf(f)[i].type = "tutor_question_answered" }

\* the step is "Back" from question[i] to question[i - 1]
BackStep ==
  /\ tutor_stage = "question" /\ tutor_stage' = "question"
  /\ tutor_question_index' = tutor_question_index - 1

\* C28: "Back" leaves the log as it is; the number of the user's
\* tutor_question_answered events grows by one with every Next and Finish
\* and with no other step, and after each of these steps the analytics
\* counts all of them, the discarded answers included, in question_count,
\* correct_count and accuracy.
C28_BackKeepsEvents ==
  [][ LET log2 == LogOf(fs')
          n    == Cardinality(QuestionEvents(fs))
          n2   == Cardinality(QuestionEvents(fs'))
      IN /\ BackStep => log2 = LogOf(fs)
         /\ n2 = n + (IF NextStep \/ FinishStep THEN 1 ELSE 0)
         /\ (BackStep \/ NextStep \/ FinishStep) =>
              LET v2  == QuestionStats(fs', USER_ID)
                  nc2 == Cardinality({ i \in QuestionEvents(fs') :
                                         log2[i].data.correct })
              IN /\ v2.question_count = n2
                 /\ v2.correct_count = nc2
                 /\ v2.accuracy = [num |-> nc2, den |-> n2] ]_vars

\* one assessment finished after a "Back": six tutor_question_answered
\* events for five questions, all six in the snapshot
C28_Witness ==
  /\ tutor_stage = "summary" /\ backs = 1
  /\ Cardinality(QuestionEvents(fs)) = NumQuestions + 1
  /\ SummarizeUserMetrics(fs, USER_ID, today).question_count = NumQuestions + 1
  /\ Len(tutor_answers) = NumQuestions

\* C30: the tutor panel and the analytics panel are never open together,
\* whatever toggles, "Close tutor" and "Back to roadmap" clicks were
\* made, and a click that opens one panel closes the other.
C30_PanelsExclusive ==
  /\ [](~(show_ai_tutor /\ show_analytics))
  /\ [][ /\ (~show_ai_tutor /\ show_ai_tutor') => ~show_analytics'
         /\ (~show_analytics /\ show_analytics') => ~show_ai_tutor' ]_vars

\* the analytics panel opened over a tutor panel that was in the middle of
\* an assessment
C30_Witness ==
  /\ show_analytics /\ ~show_ai_tutor
  /\ tutor_stage = "question" /\ tutor_question_index = 2

====
